---- MODULE Spec2Model ----
(***************************************************************************)
(* The user-ID migration and integrity verification script                 *)
(* (migrate_user_ids.py) as a state machine.                               *)
(*                                                                         *)
(* The store is the users collection and the four referencing collections; *)
(* every collection is the sequence of its documents in cursor order.  A   *)
(* run of the script is main() followed by UserIdMigrator.run_migration(); *)
(* the loops over documents advance one update_one call per step, so that  *)
(* an operator interrupt or a raising update can fall between two          *)
(* single-document updates.                                                *)
(*                                                                         *)
(* Failures of the environment that are modelled: a failing connect(), a   *)
(* raising update_one, a failing write of the backup file and the operator *)
(* interrupt.  Store reads (find, count_documents, distinct, aggregate)    *)
(* succeed.                                                                *)
(***************************************************************************)
EXTENDS Integers, Sequences, FiniteSets, TLC

VARIABLES
    users,              \* the users collection: Seq of [_id, userId]
    deps,               \* referencing collection name -> Seq of [_id, userId]
    backup,             \* content of user_id_migration_backup.json
    pc,                 \* position of the script
    run,                \* number of runs of the script started so far
    maxRuns,            \* how many runs the operator makes
    dry_run,            \* self.dry_run
    check_only,         \* self.check_only
    client,             \* self.client: "none", "open" or "closed"
    migration_map,      \* self.migration_map
    coll,               \* index into referencing_collections of the loop at 354
    idx,                \* position of the cursor of the running loop
    updated_count,      \* updated_count of the running loop
    success,            \* success flag of migrate_referencing_collections
    analysis,           \* initial_analysis
    pre_migration_integrity,
    integrity_results,
    result,             \* return value of run_migration: "none", "true", "false"
    exit_code,          \* exit status of the process, -1 while running
    log,                \* the log lines of the current run, in order
    writes,             \* update_one calls per dependent document, this run
    pre,                \* the store when the current run started
    orig,               \* the store before the first run
    raised,             \* an update_one raised in the current run
    history,            \* one record per finished run
    \* the other scripts of the repository; one behaviour runs one script
    script,             \* the script the operator runs, by its file name
    at,                 \* position of that script
    config,             \* the configuration main() passes to the constructor
    clients,            \* client attribute -> "none", "open" or "closed"
    store,              \* what the script works on: collection -> documents
    local,              \* attributes and locals of the running operation
    status,             \* exit status of the process, -1 while running
    issued,             \* kinds of requests the current run has issued
    began,              \* store when the current run started
    done,               \* one record per finished run of the script
    planned             \* how many runs of the script the operator makes

migratorVars ==
    << users, deps, backup, pc, run, maxRuns, dry_run, check_only, client,
       migration_map, coll, idx, updated_count, success, analysis,
       pre_migration_integrity, integrity_results, result, exit_code,
       log, writes, pre, orig, raised, history >>

scriptVars ==
    << script, at, config, clients, store, local, status, issued, began,
       done, planned >>

vars == << migratorVars, scriptVars >>

-----------------------------------------------------------------------------
(* Bounds of the model *)

MaxUsers == 2
MaxDeps == 2
MaxDocs == 3
MaxRerunDocs == 2
MaxRerunDeps == 1
MaxVerifyDocs == 54

(* Program constants *)

InvalidIdsLimit == 50
InconsistentLimit == 50

-----------------------------------------------------------------------------
(* BSON values of a field.  A field is absent, null, a string or an        *)
(* ObjectId; v is the text of a string and the hex text of an ObjectId.    *)

Absent == [t |-> "absent", v |-> ""]
Null == [t |-> "null", v |-> ""]
StrV(s) == [t |-> "str", v |-> s]
OidV(s) == [t |-> "oid", v |-> s]

\* Python str(): the text of a string, the hex of an ObjectId, "None" of None.
Str(x) == IF x.t = "null" THEN "None" ELSE x.v

\* MongoDB $toString: null for a null or missing field.
ToStringExpr(x) == IF x.t \in {"null", "absent"} THEN Null ELSE StrV(x.v)

\* The filter {'userId': {'$exists': True, '$ne': None}}.
HasUserId(doc) == doc.userId.t \notin {"absent", "null"}

\* The filter {'$or': [{'userId': {'$exists': False}}, {'userId': None}]}.
WithoutUserId(doc) == doc.userId.t \in {"absent", "null"}

users_collection == "users"
referencing_collections == << "addresses", "orders", "reviews", "rewards" >>
CollNames == { referencing_collections[i] : i \in DOMAIN referencing_collections }
backup_file == "user_id_migration_backup.json"

NoFile == [exists |-> FALSE, content |-> << >>]
FileOf(m) == [exists |-> TRUE, content |-> m]

EmptyMap == [k \in {} |-> ""]

Range(s) == { s[i] : i \in DOMAIN s }

Min(a, b) == IF a <= b THEN a ELSE b

\* xs[:n]
Take(xs, n) == SubSeq(xs, 1, Min(n, Len(xs)))

\* dict assignment m[k] = v.
Put(m, k, v) == [x \in DOMAIN m \cup {k} |-> IF x = k THEN v ELSE m[x]]

-----------------------------------------------------------------------------
(* create_migration_mapping, lines 284-289 *)

\* Mutant of GetUserIdOrId: user['_id'] whatever the document holds.
GetId(user) == user._id

\* user.get('userId', user['_id']): the field when present (null included).
GetUserIdOrId(user) ==
    IF user.userId.t = "absent" THEN user._id ELSE user.userId

old_user_id(user) == Str(GetUserIdOrId(user))

\* Mutant of new_user_id: the old string is kept as the new one.
kept_user_id(user) == Str(GetUserIdOrId(user))

new_user_id(user) == Str(user._id)

RECURSIVE BuildMap(_, _)
BuildMap(docs, m) ==
    IF docs = << >> THEN m
    ELSE BuildMap(Tail(docs),
                  Put(m, old_user_id(Head(docs)), new_user_id(Head(docs))))

MigrationMap(docs) == BuildMap(docs, EmptyMap)

-----------------------------------------------------------------------------
(* analyze_current_state, lines 185-241 *)

\* $expr $eq [$toString $_id, $toString $userId]
IdEqualsUserIdExpr(doc) == ToStringExpr(doc._id) = ToStringExpr(doc.userId)

\* coll.distinct('userId'): the values of the field where it is present.
Distinct(docs) == { d.userId : d \in { e \in Range(docs) : e.userId.t # "absent" } }

AnalyzeReferences(docs) ==
    [ total_documents |-> Len(docs),
      documents_with_userId |-> Len(SelectSeq(docs, HasUserId)),
      unique_userId_values |-> Cardinality(Distinct(docs)) ]

Analyze(us, ds) ==
    [ users |->
        [ total_users |-> Len(us),
          users_with_userId |-> Len(SelectSeq(us, HasUserId)),
          users_without_userId |-> Len(SelectSeq(us, WithoutUserId)),
          users_where_userId_equals_id |-> Len(SelectSeq(us, IdEqualsUserIdExpr)) ],
      references |-> [ c \in CollNames |-> AnalyzeReferences(ds[c]) ] ]

-----------------------------------------------------------------------------
(* verify_integrity, lines 412-575 *)

\* $expr $and [$ne [$userId, null], $eq [$toString $_id, $toString $userId]];
\* a missing field is not equal to null in an aggregation expression.
ConsistentExpr(doc) == doc.userId.t # "null" /\ IdEqualsUserIdExpr(doc)

\* $expr $or [$eq [$userId, null], $ne [$toString $_id, $toString $userId]]
InconsistentExpr(doc) == doc.userId.t = "null" \/ ~IdEqualsUserIdExpr(doc)

\* {'_id': str(user['_id']), 'userId': str(user.get('userId', 'None'))}
InconsistentDetail(user) ==
    [ userId |-> IF user.userId.t = "absent" THEN "None" ELSE Str(user.userId),
      _id |-> Str(user._id) ]

MapDetails(docs) == [ i \in 1..Len(docs) |-> InconsistentDetail(docs[i]) ]

\* _find_inconsistent_users: $match, $project, $limit
_find_inconsistent_users(us, limit) ==
    MapDetails(Take(SelectSeq(us, InconsistentExpr), limit))

_check_users_consistency(us) ==
    LET total_users == Len(us)
        consistent_users == Len(SelectSeq(us, ConsistentExpr))
    IN  [ total_users |-> total_users,
          consistent_users |-> consistent_users,
          inconsistent_users |-> total_users - consistent_users,
          inconsistent_user_details |->
              _find_inconsistent_users(us, InconsistentLimit) ]

\* set(str(user_id) for user_id in users.distinct('userId') if user_id is not None)
valid_user_ids(us) == { Str(x) : x \in { y \in Distinct(us) : y.t # "null" } }

\* str(doc['userId']) of the documents the cursor of line 489 / 518 returns.
ReferenceStrings(docs) ==
    LET found == SelectSeq(docs, HasUserId)
    IN  [ i \in 1..Len(found) |-> Str(found[i].userId) ]

Indexed(xs) == [ i \in 1..Len(xs) |-> [ x |-> xs[i], i |-> i ] ]

Values(ps) == [ i \in 1..Len(ps) |-> ps[i].x ]

\* the loop of lines 489-496: an invalid reference is appended when it is
\* not yet in the list, so the list holds the first occurrences in order.
AppendNew(refs, valid) ==
    Values(SelectSeq(Indexed(refs),
                     LAMBDA p : /\ p.x \notin valid
                                /\ \A j \in 1..(p.i - 1) : refs[j] # p.x))

\* the loop of lines 518-521: every invalid reference is appended.
AppendInvalid(refs, valid) == SelectSeq(refs, LAMBDA r : r \notin valid)

\* Mutant of RemoveDuplicates: list(xs) without the set().
KeepDuplicates(xs) == xs

\* list(set(xs)): the elements of xs once each, in an order Python leaves
\* unspecified; the order of the last occurrences stands for it, nothing
\* reads the order.
RemoveDuplicates(xs) ==
    Values(SelectSeq(Indexed(xs),
                     LAMBDA p : \A j \in (p.i + 1)..Len(xs) : xs[j] # p.x))

CheckCollection(docs, valid) ==
    LET refs == ReferenceStrings(docs)
        invalid_user_ids == AppendNew(refs, valid)
        valid_references == Len(SelectSeq(refs, LAMBDA r : r \in valid))
    IN  [ invalid_user_ids |-> Take(invalid_user_ids, InvalidIdsLimit),
          valid_references |-> valid_references,
          total_references |-> Len(SelectSeq(docs, HasUserId)),
          invalid_references |-> Len(refs) - valid_references ]

_check_reference_integrity(us, ds) ==
    [ c \in CollNames |-> CheckCollection(ds[c], valid_user_ids(us)) ]

OrphanedIn(docs, valid) ==
    RemoveDuplicates(AppendInvalid(ReferenceStrings(docs), valid))

_find_orphaned_references(us, ds) ==
    [ c \in CollNames |-> OrphanedIn(ds[c], valid_user_ids(us)) ]

verify_integrity(us, ds) ==
    [ users_consistency |-> _check_users_consistency(us),
      reference_integrity |-> _check_reference_integrity(us, ds),
      orphaned_references |-> _find_orphaned_references(us, ds) ]

NoResults == [ none |-> TRUE ]

-----------------------------------------------------------------------------
(* The store the script starts on *)

\* The _id values of users: two ObjectIds, so users holds at most two documents.
UserHex == { "A", "B" }
UserIdValues == { Absent, Null, StrV("o1"), StrV("B") }
RefValues == { Absent, Null, StrV("o1"), OidV("A") }

UserDocs == [ _id : { OidV(h) : h \in UserHex }, userId : UserIdValues ]

\* _id is unique in a collection.
UniqueIds(docs) ==
    \A i, j \in DOMAIN docs : docs[i]._id = docs[j]._id => i = j

SeqsUpTo(S, n) == UNION { [1..k -> S] : k \in 0..n }

UsersUpTo(n) == { us \in SeqsUpTo(UserDocs, n) : UniqueIds(us) }

\* The documents of a referencing collection get their _id from their position.
DocHex(i) == "d" \o ToString(i)

DocsOf(values) ==
    [ i \in 1..Len(values) |-> [ userId |-> values[i], _id |-> OidV(DocHex(i)) ] ]

\* Referencing collections from a list of (collection, userId) insertions.
DepsOf(inserts) ==
    [ c \in CollNames |->
        LET mine == SelectSeq(inserts, LAMBDA p : p.c = c)
        IN  DocsOf([ i \in 1..Len(mine) |-> mine[i].userId ]) ]

DepsUpTo(n) ==
    { DepsOf(ins) : ins \in SeqsUpTo([ c : CollNames, userId : RefValues ], n) }

Store(us, ds, b) == [ users |-> us, deps |-> ds, backup |-> b ]

NoWrites(ds) == [ c \in CollNames |-> [ i \in 1..Len(ds[c]) |-> 0 ] ]

\* No process of the script is running: nothing is configured, no object
\* exists.
NoConfig == [ none |-> TRUE ]

NoLocal == [ none |-> TRUE ]

NoClients == [ c \in {} |-> "none" ]

\* The state of script s before its first run on the store st, which the
\* operator will run n times.
InitScript(s, st, n) ==
    /\ script = s
    /\ at = "idle"
    /\ config = NoConfig
    /\ clients = NoClients
    /\ store = st
    /\ local = NoLocal
    /\ status = -1
    /\ issued = {}
    /\ began = st
    /\ done = << >>
    /\ planned = n

NoStore == [ c \in {} |-> << >> ]

InitRun(us, ds, n) ==
    /\ users = us
    /\ deps = ds
    /\ backup = NoFile
    /\ pc = "idle"
    /\ run = 0
    /\ maxRuns = n
    /\ dry_run = FALSE
    /\ check_only = FALSE
    /\ client = "none"
    /\ migration_map = EmptyMap
    /\ coll = 1
    /\ idx = 1
    /\ updated_count = 0
    /\ success = TRUE
    /\ analysis = NoResults
    /\ pre_migration_integrity = NoResults
    /\ integrity_results = NoResults
    /\ result = "none"
    /\ exit_code = -1
    /\ log = << >>
    /\ writes = NoWrites(ds)
    /\ pre = Store(us, ds, NoFile)
    /\ orig = Store(us, ds, NoFile)
    /\ raised = FALSE
    /\ history = << >>

\* Every store of at most total documents, at most most of them in the
\* referencing collections, on which the script is run n times.
InitStores(total, most, n) ==
    \E us \in UsersUpTo(Min(MaxUsers, total)) :
        \E ds \in DepsUpTo(Min(most, total - Len(us))) :
            InitRun(us, ds, n) /\ InitScript("migrate_user_ids", NoStore, 0)

\* One run of the script.
Init == InitStores(MaxDocs, MaxDeps, 1)

\* Two runs of the script, one after the other.
InitRerun == InitStores(MaxRerunDocs, MaxRerunDeps, 2)

\* Stores with one large referencing collection, for the lists that
\* verify_integrity cuts at 50 entries: n documents whose references cycle
\* through m values, the first of them valid.
VerifyValue(k) == IF k = 0 THEN StrV("o1") ELSE StrV("x" \o ToString(k))

VerifyDocs(n, m) == DocsOf([ i \in 1..n |-> VerifyValue((i - 1) % m) ])

InitVerify ==
    /\ InitScript("migrate_user_ids", NoStore, 0)
    /\ \E n \in (MaxVerifyDocs - 2)..MaxVerifyDocs, c \in CollNames :
         \E m \in { 1, 2, n - 2, n + 1 } :
            InitRun(<< [ userId |-> StrV("o1"), _id |-> OidV("A") ] >>,
                    [ d \in CollNames |-> IF d = c THEN VerifyDocs(n, m) ELSE << >> ],
                    1)

-----------------------------------------------------------------------------
(* Helpers of the actions *)

Info(event, where, n) == [ coll |-> where, n |-> n, event |-> event, level |-> "info" ]
Warning(event, where, n) == [ coll |-> where, n |-> n, event |-> event, level |-> "warning" ]
Error(event, where, n) == [ coll |-> where, n |-> n, event |-> event, level |-> "error" ]

\* response.lower()
Lower(s) == IF s = "Y" THEN "y" ELSE s

Responses == { "y", "Y", "n" }

\* update_one({'_id': id}, {'$set': {'userId': value}})
UpdateOne(docs, id, value) ==
    LET hits == { i \in DOMAIN docs : docs[i]._id = id }
        first == CHOOSE i \in hits : \A j \in hits : i <= j
    IN  IF hits = {} THEN docs
        ELSE [ docs EXCEPT ![first] = [ @ EXCEPT !.userId = value ] ]

\* Mutant of Modified: matched_count instead of modified_count.
ModifiedMatched(before, after) == TRUE

\* result.modified_count > 0: the stored document changed.
Modified(before, after) == before # after

\* Mutant of UsersDryRun: the dry-run test of line 318 is missing.
UsersDryRunIgnored == FALSE

\* line 318: migrate_users_collection only reports in a dry run.
UsersDryRun == dry_run

\* line 375: _migrate_single_collection only counts in a dry run.
CollectionDryRun == dry_run

\* Mutant of NewUsersUserId: the _id is stored without str().
NewUsersUserIdRaw(user_doc) == user_doc._id

\* line 333: the value a user's userId is set to.
NewUsersUserId(user_doc) == StrV(Str(user_doc._id))

\* Mutant of RefUpdate: map.get(old, old) written unconditionally.
RefUpdateAlways(doc, map) ==
    LET old == Str(doc.userId)
    IN  [ userId |-> StrV(IF old \in DOMAIN map THEN map[old] ELSE old),
          update |-> TRUE ]

\* Mutant of RefUpdate: the old string is written back instead of the
\* mapped value.
RefUpdateOldValue(doc, map) ==
    LET old == Str(doc.userId)
    IN  IF old \in DOMAIN map
        THEN [ userId |-> StrV(old), update |-> TRUE ]
        ELSE [ userId |-> doc.userId, update |-> FALSE ]

\* Mutant of RefUpdate: the loop passes over every document.
RefUpdateSkipped(doc, map) == [ userId |-> doc.userId, update |-> FALSE ]

\* lines 390-399: what the loop does with a document the cursor returned:
\* an update_one with the mapped value when str(userId) is a key of the
\* mapping, nothing otherwise.
RefUpdate(doc, map) ==
    LET old == Str(doc.userId)
    IN  IF old \in DOMAIN map
        THEN [ userId |-> StrV(map[old]), update |-> TRUE ]
        ELSE [ userId |-> doc.userId, update |-> FALSE ]

\* The position of the next document the cursor of line 384 returns, from
\* position i on; Len(docs) + 1 when it is exhausted.
NextMatch(docs, i) ==
    LET rest == { j \in i..Len(docs) : HasUserId(docs[j]) }
    IN  IF rest = {} THEN Len(docs) + 1
        ELSE CHOOSE j \in rest : \A k \in rest : j <= k

\* Mutant of CheckOnlyReturn: the flag is not looked at.
CheckOnlyIgnored == FALSE

\* line 660: if self.check_only: return True
CheckOnlyReturn == check_only

\* Mutant of BackupFailureStops: the failed write ends the run.
BackupFailurePropagates == TRUE

\* lines 306-309: _save_migration_backup catches the exception of a failed
\* write and logs a warning; create_migration_mapping goes on to return True.
BackupFailureStops == FALSE

CollName == referencing_collections[coll]

NumColls == Len(referencing_collections)

\* What is known of a finished run: whether it was a live migration, and
\* how it ended.
RunRecord ==
    [ result |-> result, raised |-> raised,
      live |-> ~dry_run /\ ~check_only, interrupted |-> FALSE ]

\* The process has ended: the migrator object, its results and the output
\* of the run are gone; the store, the backup file, the exit status and the
\* state of the connection remain.
ProcessEnded ==
    /\ pc' = "idle"
    /\ dry_run' = FALSE
    /\ check_only' = FALSE
    /\ migration_map' = EmptyMap
    /\ coll' = 1
    /\ idx' = 1
    /\ updated_count' = 0
    /\ success' = TRUE
    /\ analysis' = NoResults
    /\ pre_migration_integrity' = NoResults
    /\ integrity_results' = NoResults
    /\ result' = "none"
    /\ log' = << >>
    /\ writes' = NoWrites(deps)
    /\ pre' = Store(users, deps, backup)
    /\ raised' = FALSE

-----------------------------------------------------------------------------
(* main, lines 773-834: the prompt and the construction of the migrator *)

main(dr, co, response) ==
    /\ pc = "idle"
    /\ run < maxRuns
    /\ run' = run + 1
    /\ IF Lower(response) # "y"
       THEN /\ ProcessEnded
            /\ exit_code' = 0
            /\ client' = "none"
            /\ history' = Append(history,
                   [ result |-> "cancelled", raised |-> FALSE,
                     live |-> ~dr /\ ~co, interrupted |-> FALSE ])
       ELSE /\ pc' = "connect"
            /\ pre' = Store(users, deps, backup)
            /\ dry_run' = dr
            /\ check_only' = co
            /\ client' = "none"
            /\ migration_map' = EmptyMap
            /\ exit_code' = -1
            /\ UNCHANGED << coll, idx, updated_count, success, analysis,
                            pre_migration_integrity, integrity_results, result,
                            log, writes, raised, history >>
    /\ UNCHANGED << users, deps, backup, maxRuns, orig >>
    /\ UNCHANGED scriptVars

(* connect, lines 134-155 *)

connect ==
    /\ pc = "connect"
    /\ \/ /\ client' = "open"
          /\ pc' = "analyze"
          /\ log' = Append(log, Info("connected", "", 0))
          /\ UNCHANGED result
       \/ \* MongoClient() raises, or the ping raises after the client was made
          /\ client' \in { "none", "open" }
          /\ pc' = "exit"
          /\ result' = "false"
          /\ log' = Append(log, Error("connect", "", 0))
    /\ UNCHANGED << users, deps, backup, run, maxRuns, dry_run, check_only,
                    migration_map, coll, idx, updated_count, success, analysis,
                    pre_migration_integrity, integrity_results, exit_code,
                    writes, pre, orig, raised, history >>
    /\ UNCHANGED scriptVars

(* run_migration, lines 651-653 *)

analyze_current_state ==
    /\ pc = "analyze"
    /\ analysis' = Analyze(users, deps)
    /\ log' = Append(log, Info("analysis", "", 0))
    /\ pc' = "verify_pre"
    /\ UNCHANGED << users, deps, backup, run, maxRuns, dry_run, check_only,
                    client, migration_map, coll, idx, updated_count, success,
                    pre_migration_integrity, integrity_results, result,
                    exit_code, writes, pre, orig, raised, history >>
    /\ UNCHANGED scriptVars

(* run_migration, lines 655-662 *)

pre_migration_check ==
    /\ pc = "verify_pre"
    /\ pre_migration_integrity' = verify_integrity(users, deps)
    /\ IF CheckOnlyReturn
       THEN /\ log' = log \o << Info("integrity", "", 0), Info("check_only", "", 0) >>
            /\ result' = "true"
            /\ pc' = "finally"
       ELSE /\ log' = Append(log, Info("integrity", "", 0))
            /\ result' = result
            /\ pc' = "create_mapping"
    /\ UNCHANGED << users, deps, backup, run, maxRuns, dry_run, check_only,
                    client, migration_map, coll, idx, updated_count, success,
                    analysis, integrity_results, exit_code, writes, pre, orig,
                    raised, history >>
    /\ UNCHANGED scriptVars

(* create_migration_mapping with _save_migration_backup, lines 270-309,
   and run_migration, lines 664-670 *)

create_migration_mapping ==
    /\ pc = "create_mapping"
    /\ migration_map' = MigrationMap(users)
    /\ \E saved \in BOOLEAN :
         LET created == Info("mapping", users_collection, Cardinality(DOMAIN migration_map'))
             save == IF saved THEN Info("backup", backup_file, 0)
                     ELSE Warning("backup", backup_file, 0)
         IN  /\ backup' = IF saved THEN FileOf(migration_map') ELSE backup
             /\ IF ~saved /\ BackupFailureStops
                THEN /\ log' = log \o << created, save >>
                     /\ result' = "false"
                     /\ pc' = "finally"
                ELSE IF migration_map' = EmptyMap
                THEN /\ log' = log \o << created, save, Info("no_users", "", 0) >>
                     /\ result' = "true"
                     /\ pc' = "finally"
                ELSE /\ log' = log \o << created, save >>
                     /\ result' = result
                     /\ pc' = "migrate_users"
    /\ idx' = 1
    /\ updated_count' = 0
    /\ UNCHANGED << users, deps, run, maxRuns, dry_run, check_only, client,
                    coll, success, analysis, pre_migration_integrity,
                    integrity_results, exit_code, writes, pre, orig, raised,
                    history >>
    /\ UNCHANGED scriptVars

(* migrate_users_collection, lines 311-343, with the return of line 674 *)

migrate_users_dry_run ==
    /\ pc = "migrate_users"
    /\ UsersDryRun
    /\ log' = Append(log, Info("dry_run_users", users_collection, 0))
    /\ pc' = "migrate_refs"
    /\ coll' = 1
    /\ idx' = 1
    /\ success' = TRUE
    /\ UNCHANGED << users, deps, backup, run, maxRuns, dry_run, check_only,
                    client, migration_map, updated_count, analysis,
                    pre_migration_integrity, integrity_results, result,
                    exit_code, writes, pre, orig, raised, history >>
    /\ UNCHANGED scriptVars

\* one pass of the loop of line 330: update_one returns, or raises
migrate_user ==
    /\ pc = "migrate_users"
    /\ ~UsersDryRun
    /\ idx <= Len(users)
    /\ LET user_doc == users[idx]
           after == UpdateOne(users, user_doc._id, NewUsersUserId(user_doc))
       IN  \/ /\ users' = after
              /\ updated_count' =
                     IF Modified(users, after) THEN updated_count + 1
                     ELSE updated_count
              /\ idx' = idx + 1
              /\ UNCHANGED << pc, log, result, raised >>
           \/ /\ log' = Append(log, Error("migrate", users_collection, idx))
              /\ result' = "false"
              /\ raised' = TRUE
              /\ pc' = "finally"
              /\ UNCHANGED << users, updated_count, idx >>
    /\ UNCHANGED << deps, backup, run, maxRuns, dry_run, check_only, client,
                    migration_map, coll, success, analysis,
                    pre_migration_integrity, integrity_results, exit_code,
                    writes, pre, orig, history >>
    /\ UNCHANGED scriptVars

migrate_users_done ==
    /\ pc = "migrate_users"
    /\ ~UsersDryRun
    /\ idx > Len(users)
    /\ log' = Append(log, Info("updated", users_collection, updated_count))
    /\ pc' = "migrate_refs"
    /\ coll' = 1
    /\ idx' = 1
    /\ updated_count' = 0
    /\ success' = TRUE
    /\ UNCHANGED << users, deps, backup, run, maxRuns, dry_run, check_only,
                    client, migration_map, analysis, pre_migration_integrity,
                    integrity_results, result, exit_code, writes, pre, orig,
                    raised, history >>
    /\ UNCHANGED scriptVars

(* _migrate_single_collection, lines 360-410, called by the loop of
   migrate_referencing_collections, lines 354-356 *)

migrate_collection_dry_run ==
    /\ pc = "migrate_refs"
    /\ coll <= NumColls
    /\ CollectionDryRun
    /\ log' = Append(log, Info("dry_run_count", CollName,
                               Len(SelectSeq(deps[CollName], HasUserId))))
    /\ coll' = coll + 1
    /\ UNCHANGED << users, deps, backup, pc, run, maxRuns, dry_run, check_only,
                    client, migration_map, idx, updated_count, success,
                    analysis, pre_migration_integrity, integrity_results,
                    result, exit_code, writes, pre, orig, raised,
                    history >>
    /\ UNCHANGED scriptVars

\* one pass of the loop of line 389
migrate_document ==
    /\ pc = "migrate_refs"
    /\ coll <= NumColls
    /\ ~CollectionDryRun
    /\ LET docs == deps[CollName]
           j == NextMatch(docs, idx)
       IN  /\ j <= Len(docs)
           /\ LET doc == docs[j]
                  todo == RefUpdate(doc, migration_map)
              IN  IF todo.update
                  THEN LET after == UpdateOne(docs, doc._id, todo.userId)
                       IN  \/ /\ deps' = [ deps EXCEPT ![CollName] = after ]
                              /\ writes' = [ writes EXCEPT ![CollName][j] = @ + 1 ]
                              /\ updated_count' =
                                     IF Modified(docs, after) THEN updated_count + 1
                                     ELSE updated_count
                              /\ idx' = j + 1
                              /\ UNCHANGED << log, success, raised, coll >>
                           \/ /\ log' = Append(log, Error("migrate", CollName, j))
                              /\ success' = FALSE
                              /\ raised' = TRUE
                              /\ coll' = coll + 1
                              /\ idx' = 1
                              /\ updated_count' = 0
                              /\ UNCHANGED << deps, writes >>
                  ELSE /\ idx' = j + 1
                       /\ UNCHANGED << deps, writes, updated_count, log, success,
                                       raised, coll >>
    /\ UNCHANGED << users, backup, pc, run, maxRuns, dry_run, check_only,
                    client, migration_map, analysis, pre_migration_integrity,
                    integrity_results, result, exit_code, pre, orig,
                    history >>
    /\ UNCHANGED scriptVars

migrate_collection_done ==
    /\ pc = "migrate_refs"
    /\ coll <= NumColls
    /\ ~CollectionDryRun
    /\ NextMatch(deps[CollName], idx) > Len(deps[CollName])
    /\ log' = Append(log, Info("updated", CollName, updated_count))
    /\ coll' = coll + 1
    /\ idx' = 1
    /\ updated_count' = 0
    /\ UNCHANGED << users, deps, backup, pc, run, maxRuns, dry_run, check_only,
                    client, migration_map, success, analysis,
                    pre_migration_integrity, integrity_results, result,
                    exit_code, writes, pre, orig, raised, history >>
    /\ UNCHANGED scriptVars

(* migrate_referencing_collections, line 358, and run_migration, lines 677-678 *)

migrate_referencing_collections_done ==
    /\ pc = "migrate_refs"
    /\ coll > NumColls
    /\ IF success
       THEN pc' = "verify_post" /\ result' = result
       ELSE pc' = "finally" /\ result' = "false"
    /\ UNCHANGED << users, deps, backup, run, maxRuns, dry_run, check_only,
                    client, migration_map, coll, idx, updated_count, success,
                    analysis, pre_migration_integrity, integrity_results,
                    exit_code, log, writes, pre, orig, raised,
                    history >>
    /\ UNCHANGED scriptVars

(* run_migration, lines 680-697 *)

post_migration_check ==
    /\ pc = "verify_post"
    /\ integrity_results' = verify_integrity(users, deps)
    /\ log' = log \o << Info("integrity", "", 0),
                        Info("summary", "", Cardinality(DOMAIN migration_map)),
                        Info(IF dry_run THEN "dry_run_completed" ELSE "completed",
                             "", NumColls + 1) >>
    /\ result' = "true"
    /\ pc' = "finally"
    /\ UNCHANGED << users, deps, backup, run, maxRuns, dry_run, check_only,
                    client, migration_map, coll, idx, updated_count, success,
                    analysis, pre_migration_integrity, exit_code, writes, pre,
                    orig, raised, history >>
    /\ UNCHANGED scriptVars

(* disconnect, lines 157-161, from the finally of line 702 *)

disconnect ==
    /\ pc = "finally"
    /\ client' = IF client = "open" THEN "closed" ELSE client
    /\ log' = Append(log, Info("disconnected", "", 0))
    /\ pc' = "exit"
    /\ UNCHANGED << users, deps, backup, run, maxRuns, dry_run, check_only,
                    migration_map, coll, idx, updated_count, success, analysis,
                    pre_migration_integrity, integrity_results, result,
                    exit_code, writes, pre, orig, raised, history >>
    /\ UNCHANGED scriptVars

(* main, lines 826-834: the exit status *)

exit ==
    /\ pc = "exit"
    /\ exit_code' = IF result = "true" THEN 0 ELSE 1
    /\ history' = Append(history, RunRecord)
    /\ ProcessEnded
    /\ UNCHANGED << users, deps, backup, run, maxRuns, client, orig >>
    /\ UNCHANGED scriptVars

(* KeyboardInterrupt.  Inside the try of line 650 the exception unwinds
   through the finally of line 702 (disconnect) to main's handler of line 829,
   which exits with status 1.  Inside connect(), before the try, nothing
   closes a client that was already made. *)

TryStates == { "analyze", "verify_pre", "create_mapping", "migrate_users",
               "migrate_refs", "verify_post" }

InterruptedRecord ==
    [ RunRecord EXCEPT !.interrupted = TRUE, !.result = "none" ]

interrupt ==
    /\ pc \in TryStates \cup { "connect" }
    /\ IF pc = "connect"
       THEN client' \in { "none", "open" }
       ELSE client' = IF client = "open" THEN "closed" ELSE client
    /\ exit_code' = 1
    /\ history' = Append(history, InterruptedRecord)
    /\ ProcessEnded
    /\ UNCHANGED << users, deps, backup, run, maxRuns, orig >>
    /\ UNCHANGED scriptVars

-----------------------------------------------------------------------------

Next ==
    \/ \E dr \in BOOLEAN, co \in BOOLEAN, response \in Responses :
           main(dr, co, response)
    \/ connect
    \/ analyze_current_state
    \/ pre_migration_check
    \/ create_migration_mapping
    \/ migrate_users_dry_run
    \/ migrate_user
    \/ migrate_users_done
    \/ migrate_collection_dry_run
    \/ migrate_document
    \/ migrate_collection_done
    \/ migrate_referencing_collections_done
    \/ post_migration_check
    \/ disconnect
    \/ exit
    \/ interrupt

Spec == Init /\ [][Next]_vars

SpecRerun == InitRerun /\ [][Next]_vars

SpecVerify == InitVerify /\ [][Next]_vars

-----------------------------------------------------------------------------
(* Vocabulary of the properties *)

Live == ~dry_run /\ ~check_only

\* The current run returned True from run_migration and is about to exit.
Completed == pc = "exit" /\ result = "true"

\* create_migration_mapping has run in the current run.
MappingBuilt == \E i \in DOMAIN log : log[i].event = "mapping"

\* migrate_users_collection has returned True in the current run.
UsersMigrated ==
    \/ pc \in { "migrate_refs", "verify_post" }
    \/ pc \in { "finally", "exit" } /\ MappingBuilt
         /\ migration_map # EmptyMap
         /\ ~(\E i \in DOMAIN log : log[i] = Error("migrate", users_collection, log[i].n))

\* migrate_referencing_collections has returned True in the current run.
ReferencesMigrated ==
    \/ pc = "verify_post"
    \/ pc \in { "finally", "exit" } /\ result = "true"
         /\ migration_map # EmptyMap

IdAsString(doc) == StrV(Str(doc._id))

-----------------------------------------------------------------------------
(* C1  Completeness: after a live run in which no update raised, every
   document of users has userId equal to the string of its _id, whatever
   the field held before (a value, null, or nothing). *)

C1_Completeness ==
    (run >= 1 /\ Live /\ ~raised /\ (UsersMigrated \/ Completed))
        => \A i \in DOMAIN users : users[i].userId = IdAsString(users[i])

C1_Witness ==
    /\ Completed /\ Live /\ ~raised
    /\ Len(users) = 2
    /\ \E i, j \in DOMAIN users :
          /\ pre.users[i].userId.t = "str"
          /\ pre.users[i].userId # IdAsString(pre.users[i])
          /\ pre.users[j].userId.t \in { "absent", "null" }

(* C2  Mapping totality: the mapping built by create_migration_mapping has
   exactly one entry per users document. *)

C2_MappingTotality ==
    MappingBuilt => Cardinality(DOMAIN migration_map) = Len(pre.users)

(* C3  Mapping key rule: the keys of the mapping are, for every users
   document, the string of its userId when it has one and the string of its
   _id when the field is absent or null; every entry maps the key of some
   document to the string of that document's _id. *)

ClaimedKey(user) ==
    IF WithoutUserId(user) THEN Str(user._id) ELSE Str(user.userId)

C3_MappingKeyRule ==
    MappingBuilt =>
        /\ DOMAIN migration_map = { ClaimedKey(u) : u \in Range(pre.users) }
        /\ \A k \in DOMAIN migration_map :
               \E u \in Range(pre.users) :
                   ClaimedKey(u) = k /\ migration_map[k] = Str(u._id)

(* C4  Re-run to convergence: a live run interrupted after any number of
   single-document updates, followed by a complete live run on the store it
   left, ends with users and the referencing collections in the state one
   uninterrupted live run reaches from the original store. *)

\* The store after one uninterrupted live run without failure.
MigrateAll(docs, map) ==
    [ i \in 1..Len(docs) |->
        IF HasUserId(docs[i])
        THEN [ docs[i] EXCEPT !.userId = RefUpdate(docs[i], map).userId ]
        ELSE docs[i] ]

UninterruptedLiveRun(st) ==
    IF st.users = << >> THEN [ users |-> st.users, deps |-> st.deps ]
    ELSE [ users |-> [ i \in DOMAIN st.users |->
                         [ st.users[i] EXCEPT !.userId = IdAsString(st.users[i]) ] ],
           deps |-> [ c \in CollNames |->
                        MigrateAll(st.deps[c], MigrationMap(st.users)) ] ]

LiveRecord(h) == h.live /\ h.result # "cancelled"

C4_RerunConverges ==
    ( /\ Len(history) = 2
      /\ LiveRecord(history[1]) /\ history[1].interrupted
      /\ LiveRecord(history[2]) /\ history[2].result = "true"
      /\ ~history[2].interrupted /\ ~history[2].raised )
    => [ users |-> users, deps |-> deps ] = UninterruptedLiveRun(orig)

(* C5  Reference preservation: a document of a referencing collection whose
   userId is absent, null, or a value whose string is no key of the mapping
   is never written by the run: it keeps its userId exactly, no update is
   issued for it and no error is logged for it. *)

Unmapped(doc) ==
    ~HasUserId(doc) \/ Str(doc.userId) \notin DOMAIN migration_map

C5_ReferencePreservation ==
    \A c \in CollNames : \A i \in DOMAIN deps[c] :
        Unmapped(pre.deps[c][i]) =>
            /\ deps[c][i] = pre.deps[c][i]
            /\ writes[c][i] = 0
            /\ Error("migrate", c, i) \notin Range(log)

C5_Witness ==
    /\ Completed /\ Live /\ migration_map # EmptyMap
    /\ \E c \in CollNames : \E i, j \in DOMAIN deps[c] :
          /\ HasUserId(pre.deps[c][i]) /\ Unmapped(pre.deps[c][i])
          /\ ~HasUserId(pre.deps[c][j])

(* C6  Reference rewrite: after migrate_referencing_collections of a live
   run without update failure, every dependent document whose non-null
   userId string r was a key of the mapping holds mapping[r]; it was written
   exactly once, from its value before the run, and no document is ever
   written twice. *)

C6_ReferenceRewrite ==
    /\ \A c \in CollNames : \A i \in DOMAIN deps[c] : writes[c][i] <= 1
    /\ (Live /\ ~raised /\ ReferencesMigrated) =>
          \A c \in CollNames : \A i \in DOMAIN deps[c] :
              ~Unmapped(pre.deps[c][i]) =>
                  /\ deps[c][i].userId =
                         StrV(migration_map[Str(pre.deps[c][i].userId)])
                  /\ writes[c][i] = 1

\* A reference whose new value is itself a key of the mapping with another
\* target is rewritten once, not followed further.
C6_Witness ==
    /\ Completed /\ Live /\ ~raised /\ migration_map # EmptyMap
    /\ \E c \in CollNames : \E i \in DOMAIN deps[c] :
          /\ ~Unmapped(pre.deps[c][i])
          /\ deps[c][i].userId # pre.deps[c][i].userId
          /\ Str(deps[c][i].userId) \in DOMAIN migration_map
          /\ migration_map[Str(deps[c][i].userId)] # Str(deps[c][i].userId)

(* C7  Orphan reporting, as the code has it: in every verify_integrity
   result and for every referencing collection, orphaned_references is
   duplicate-free and holds exactly the distinct invalid userId strings of
   the collection; invalid_user_ids is duplicate-free, holds only values of
   the orphan list, and has as many entries as the orphan list up to 50.
   The two lists hold the same values when there are at most 50 distinct
   invalid values. *)

NoDuplicates(xs) == \A i, j \in DOMAIN xs : xs[i] = xs[j] => i = j

\* The userId strings of docs that no users document carries as its userId.
InvalidValues(us, docs) ==
    { Str(d.userId) : d \in { e \in Range(docs) : HasUserId(e) } }
        \ { Str(u.userId) : u \in { w \in Range(us) : HasUserId(w) } }

OrphansAndInvalidIds(r, us, ds) ==
    \A c \in CollNames :
        LET orphaned == r.orphaned_references[c]
            invalid == r.reference_integrity[c].invalid_user_ids
        IN  /\ NoDuplicates(orphaned)
            /\ Range(orphaned) = InvalidValues(us, ds[c])
            /\ NoDuplicates(invalid)
            /\ Range(invalid) \subseteq Range(orphaned)
            /\ Len(invalid) = Min(Len(orphaned), 50)
            /\ Len(orphaned) <= 50 => Range(invalid) = Range(orphaned)

\* The store does not change between a verification and the end of its run,
\* nor between the start of a run and its first verification.
C7_OrphanReporting ==
    /\ pre_migration_integrity # NoResults =>
           OrphansAndInvalidIds(pre_migration_integrity, pre.users, pre.deps)
    /\ integrity_results # NoResults =>
           OrphansAndInvalidIds(integrity_results, users, deps)

C7_Witness ==
    /\ integrity_results # NoResults
    /\ \E c \in CollNames :
          /\ Len(integrity_results.orphaned_references[c]) > 50
          /\ Len(integrity_results.reference_integrity[c].invalid_user_ids) = 50
          /\ integrity_results.reference_integrity[c].invalid_references
                 > Len(integrity_results.orphaned_references[c])

\* C7 as claimed: the orphan list is duplicate-free and, as a set, is the
\* reported invalid_user_ids, for any number of distinct invalid values.
SameOrphansAsInvalidIds(r) ==
    \A c \in CollNames :
        /\ NoDuplicates(r.orphaned_references[c])
        /\ Range(r.orphaned_references[c])
               = Range(r.reference_integrity[c].invalid_user_ids)

C7_OrphansAreInvalidIds ==
    /\ pre_migration_integrity # NoResults =>
           SameOrphansAsInvalidIds(pre_migration_integrity)
    /\ integrity_results # NoResults =>
           SameOrphansAsInvalidIds(integrity_results)

(* C8  Idempotence of migrate_users_collection: a second pass over users
   after a completed first pass leaves users as the first pass left it,
   userId = str(_id) in every document, and counts no document as updated. *)

FirstRunMigratedUsers ==
    /\ run = 2 /\ Len(history) >= 1
    /\ LiveRecord(history[1]) /\ history[1].result = "true"

C8_Idempotence ==
    FirstRunMigratedUsers =>
        /\ users = pre.users
        /\ \A i \in DOMAIN users : users[i].userId = IdAsString(users[i])
        /\ (Live /\ pc = "migrate_users") => updated_count = 0
        /\ \A i \in DOMAIN log :
               (log[i].event = "updated" /\ log[i].coll = users_collection)
                   => log[i].n = 0

C8_Witness ==
    /\ FirstRunMigratedUsers /\ Live /\ ~raised
    /\ pc = "migrate_refs"
    /\ Len(users) = 2
    /\ \E i \in DOMAIN users : orig.users[i].userId # users[i].userId

(* C9  Preview mode leaves the store unchanged: in a dry run no document of
   users or of a referencing collection is modified and no update is issued;
   both Migrate steps only log what they would do. *)

C9_DryRunNoChange ==
    (run >= 1 /\ dry_run) =>
        /\ users = pre.users
        /\ deps = pre.deps
        /\ writes = NoWrites(deps)
        /\ (Completed /\ ~check_only /\ migration_map # EmptyMap) =>
              /\ Info("dry_run_users", users_collection, 0) \in Range(log)
              /\ \A c \in CollNames :
                     Info("dry_run_count", c, Len(SelectSeq(deps[c], HasUserId))) \in Range(log)

C9_Witness ==
    /\ Completed /\ dry_run /\ ~check_only
    /\ \E i \in DOMAIN users : users[i].userId # IdAsString(users[i])
    /\ \E c \in CollNames : \E i \in DOMAIN deps[c] :
          /\ ~Unmapped(deps[c][i])
          /\ deps[c][i].userId # StrV(migration_map[Str(deps[c][i].userId)])

(* C10  Preview mode does not touch the backup file: in a dry run
   user_id_migration_backup.json is neither created nor overwritten. *)

C10_DryRunKeepsBackup ==
    (run >= 1 /\ dry_run) => backup = pre.backup

-----------------------------------------------------------------------------
(* Vocabulary of the properties of a whole run *)

\* connect() returned True in the current run.
Connected == \E i \in DOMAIN log : log[i].event = "connected"

CountEvents(event) == Len(SelectSeq(log, LAMBDA l : l.event = event))

\* Every log line of event second has a line of event first before it.
Precedes(first, second) ==
    \A j \in DOMAIN log : log[j].event = second =>
        \E i \in 1..(j - 1) : log[i].event = first

\* The run is over: run_migration has returned or is in its finally block.
Returned == pc \in { "finally", "exit" }

(* C11  Check-only mode: in a --check-only run nothing of the store and of
   the backup file changes and no mapping is built at any point of the run;
   a run that connected has run Analyze and Verify exactly once when
   run_migration returns, and it returns True. *)

C11_CheckOnly ==
    (run >= 1 /\ check_only) =>
        /\ users = pre.users
        /\ deps = pre.deps
        /\ backup = pre.backup
        /\ migration_map = EmptyMap
        /\ ~MappingBuilt
        /\ integrity_results = NoResults
        /\ (Returned /\ Connected) =>
              /\ result = "true"
              /\ CountEvents("analysis") = 1
              /\ CountEvents("integrity") = 1
              /\ analysis = Analyze(users, deps)
              /\ pre_migration_integrity = verify_integrity(users, deps)

C11_Witness ==
    /\ check_only /\ ~dry_run /\ pc = "exit" /\ result = "true"
    /\ Len(users) = 2
    /\ \E i \in DOMAIN users : InconsistentExpr(users[i])
    /\ \E c \in CollNames : \E i \in DOMAIN deps[c] : HasUserId(deps[c][i])

(* C13  Partial-failure tolerance: when an update raised during Migrate users
   or Migrate dependents of a live run, every users document has been
   attempted (it holds str(_id) or its error is logged), every dependent
   document whose reference is a key of the mapping has been attempted (it
   was written or its error is logged), and the run went on to the
   post-migration Verify. *)

C13_AttemptAll ==
    (pc = "exit" /\ Live /\ raised) =>
        /\ \A i \in DOMAIN users :
              \/ users[i].userId = IdAsString(users[i])
              \/ Error("migrate", users_collection, i) \in Range(log)
        /\ \A c \in CollNames : \A j \in DOMAIN deps[c] :
              ~Unmapped(pre.deps[c][j]) =>
                  \/ writes[c][j] >= 1
                  \/ Error("migrate", c, j) \in Range(log)
        /\ integrity_results # NoResults

(* C14  Exit codes: the script exits 0 only on full success; a live run
   whose post-migration Verify reports inconsistent users or invalid
   references does not return True, so that main exits with status 1. *)

Residual(r) ==
    \/ r.users_consistency.inconsistent_users > 0
    \/ \E c \in CollNames : r.reference_integrity[c].invalid_references > 0

C14_ExitCodes ==
    (pc = "exit" /\ Live /\ integrity_results # NoResults
        /\ Residual(integrity_results)) => result # "true"

(* C15  Guaranteed release: when the process of a run has exited, no client
   that the run opened is still open. *)

C15_ClientsClosed == (pc = "idle" /\ run >= 1) => client # "open"

(* C16  Ordering of a live run: Analyze precedes the pre-migration Verify,
   which precedes the mapping, which precedes the attempt to write the
   backup; the mapping is the one of the users as they were when the run
   started; no document is updated before the backup write was attempted;
   no dependent document is updated before the users pass has ended; the
   result of the post-migration Verify is the one of the store as the run
   leaves it; and a run whose backup write failed, with no update failure,
   still returns True. *)

BackupAttempted == \E i \in DOMAIN log : log[i].event = "backup"

UsersPassEnded ==
    \E i \in DOMAIN log :
        log[i].event = "updated" /\ log[i].coll = users_collection

DependentsTouched ==
    \/ deps # pre.deps
    \/ \E c \in CollNames : \E j \in DOMAIN writes[c] : writes[c][j] > 0

C16_Ordering ==
    Live =>
        /\ Precedes("analysis", "integrity")
        /\ Precedes("integrity", "mapping")
        /\ Precedes("mapping", "backup")
        /\ MappingBuilt => migration_map = MigrationMap(pre.users)
        /\ (users # pre.users \/ DependentsTouched) => BackupAttempted
        /\ DependentsTouched => UsersPassEnded
        /\ integrity_results # NoResults =>
              integrity_results = verify_integrity(users, deps)
        /\ (pc = "exit" /\ Connected /\ ~raised
              /\ Warning("backup", backup_file, 0) \in Range(log)) =>
              result = "true"

C16_Witness ==
    /\ Live /\ Completed
    /\ Warning("backup", backup_file, 0) \in Range(log)
    /\ users # pre.users
    /\ deps # pre.deps
    /\ integrity_results # NoResults

-----------------------------------------------------------------------------
(***************************************************************************)
(* The other scripts of the repository.                                    *)
(*                                                                         *)
(* The store scripts have the shape of migrate_user_ids.py: main() prompts *)
(* and constructs the object, the run method connects before its try,      *)
(* works inside it and disconnects in its finally.  One step of a loop     *)
(* over a cursor is one cursor document, with the request it leads to.     *)
(* Store reads succeed; connect(), every write request, and the operator   *)
(* (interrupt) can fail the run.  A find() cursor returns the documents    *)
(* that matched when the loop started: a script only writes documents its  *)
(* cursor has already returned.                                            *)
(***************************************************************************)

MaxOrders == 4
MaxBatchSize == 3
MaxScriptDocs == 1

migrate_user_ids == "migrate_user_ids"
update_delivery_status == "update_delivery_status_preapring-for-dispatch_to_pending"

\* The attributes and locals of a run that has just been constructed.
NewLocal ==
    [ result |-> "none",        \* return value of the run method
      connect |-> "none",       \* what connect() returned: "ok" or "failed"
      todo |-> 0,               \* the count the analysis found
      cursor |-> << >>,         \* _id of the documents the cursor still returns
      batch |-> << >>,          \* batch
      processed |-> 0,          \* processed counter
      updated |-> 0,            \* updated counter
      errors |-> 0,             \* errors counter
      names |-> << >>,          \* collections still to process
      failed_names |-> {},      \* failed_collections
      failed |-> FALSE ]        \* a write request raised in this run

\* What is known of a finished run.
Finished(cfg, res, conn, int, failed) ==
    [ result |-> res, live |-> ~cfg.dry_run, interrupted |-> int,
      connect |-> conn, failed |-> failed ]

\* The process of the script has ended with exit status code; its command
\* line (config), the requests it issued and the store it started from
\* (began) stay on record until the next process starts.
ScriptEnded(code, record) ==
    /\ at' = "idle"
    /\ status' = code
    /\ local' = NoLocal
    /\ done' = Append(done, record)

\* main() of a store script: the y/N prompt, then the constructor, whose
\* ValueError ends the process with status 1; cs are the client attributes
\* the constructor sets to None.
ScriptMain(s, cfg, response, valid, cs) ==
    /\ script = s
    /\ at = "idle"
    /\ Len(done) < planned
    /\ config' = cfg
    /\ issued' = {}
    /\ began' = store
    /\ IF Lower(response) # "y"
       THEN /\ ScriptEnded(0, Finished(cfg, "cancelled", "none", FALSE, FALSE))
            /\ clients' = NoClients
       ELSE IF ~valid
       THEN /\ ScriptEnded(1, Finished(cfg, "invalid", "none", FALSE, FALSE))
            /\ clients' = NoClients
       ELSE /\ at' = "connect"
            /\ clients' = [ c \in cs |-> "none" ]
            /\ local' = NewLocal
            /\ status' = -1
            /\ UNCHANGED done
    /\ UNCHANGED << script, store, planned >>
    /\ UNCHANGED migratorVars

ContinueOnConnectFailure == FALSE

\* if not self.connect(): return False
ReturnOnConnectFailure == TRUE

\* connect() of a script with one client: MongoClient() and the ping.  When
\* one of them raises, connect() returns False and the run method returns
\* False before its try; the client exists when the ping was what raised.
ScriptConnect(s) ==
    /\ script = s
    /\ at = "connect"
    /\ \/ /\ clients' = [ clients EXCEPT !["client"] = "open" ]
          /\ local' = [ local EXCEPT !.connect = "ok" ]
          /\ at' = "analyze"
       \/ /\ clients' \in { [ clients EXCEPT !["client"] = c ] : c \in { "none", "open" } }
          /\ IF ReturnOnConnectFailure
             THEN /\ local' = [ local EXCEPT !.connect = "failed",
                                             !.result = "false" ]
                  /\ at' = "exit"
             ELSE /\ local' = [ local EXCEPT !.connect = "failed" ]
                  /\ at' = "analyze"
    /\ UNCHANGED << script, config, store, status, issued, began, done, planned >>
    /\ UNCHANGED migratorVars

\* disconnect() from the finally of the run method: every client that is
\* set is closed.
ScriptDisconnect(s) ==
    /\ script = s
    /\ at = "finally"
    /\ clients' = [ c \in DOMAIN clients |->
                      IF clients[c] = "open" THEN "closed" ELSE clients[c] ]
    /\ at' = "exit"
    /\ UNCHANGED << script, config, store, local, status, issued, began, done,
                    planned >>
    /\ UNCHANGED migratorVars

\* sys.exit(0 if success else 1)
ScriptExit(s) ==
    /\ script = s
    /\ at = "exit"
    /\ ScriptEnded(IF local.result = "true" THEN 0 ELSE 1,
                   Finished(config, local.result, local.connect, FALSE,
                            local.failed))
    /\ UNCHANGED << script, config, clients, store, issued, began, planned >>
    /\ UNCHANGED migratorVars

\* KeyboardInterrupt.  Inside the try of the run method it unwinds through
\* the finally (disconnect) to the handler of main(), which exits with
\* status 1; inside connect() nothing closes a client that was made.
ScriptInterrupt(s, inside) ==
    /\ script = s
    /\ at \in inside \cup { "connect" }
    /\ IF at = "connect"
       THEN clients' \in [ DOMAIN clients -> { "none", "open" } ]
       ELSE clients' = [ c \in DOMAIN clients |->
                           IF clients[c] = "open" THEN "closed" ELSE clients[c] ]
    /\ ScriptEnded(1, Finished(config, "none", local.connect, TRUE,
                               local.failed))
    /\ UNCHANGED << script, config, store, issued, began, planned >>
    /\ UNCHANGED migratorVars

\* The migrator is not the script of this behaviour.
MigratorIdle == InitRun(<< >>, [ c \in CollNames |-> << >> ], 0)

\* update_many({'_id': {'$in': ids}}, {'$set': {field: value}})
UpdateMany(docs, ids, field, value) ==
    [ i \in DOMAIN docs |->
        IF docs[i]._id \in Range(ids) THEN [ docs[i] EXCEPT ![field] = value ]
        ELSE docs[i] ]

\* modified_count of a write that led from docs to after
ModifiedCount(docs, after) ==
    Cardinality({ i \in DOMAIN docs : docs[i] # after[i] })

IdsOf(docs) == [ i \in DOMAIN docs |-> docs[i]._id ]

-----------------------------------------------------------------------------
(* update_delivery_status_preapring-for-dispatch_to_pending.py *)

orders_collection == "orders"
old_status == StrV("PREPARING_FOR_DISPATCH")
new_status == StrV("PREPARING")

\* {'deliveryStatus': self.old_status}
HasOldStatus(doc) == doc.deliveryStatus = old_status

DeliveryStatusValues ==
    { Absent, old_status, new_status, StrV("DELIVERED") }

OrdersOf(values) ==
    [ i \in DOMAIN values |->
        [ _id |-> OidV(DocHex(i)), deliveryStatus |-> values[i] ] ]

\* Every orders collection of at most n documents.
DeliveryStores(n) ==
    { [ orders |-> OrdersOf(vs) ] : vs \in SeqsUpTo(DeliveryStatusValues, n) }

\* MONGO_BATCH_SIZE is any integer, line 388
BatchSizes == { -1 } \cup 0..MaxBatchSize

InitDeliveryOf(n, runs) ==
    /\ MigratorIdle
    /\ \E st \in DeliveryStores(n) : InitScript(update_delivery_status, st, runs)

\* main, lines 440-494
DeliveryStatusUpdater_main(dr, bs, response) ==
    ScriptMain(update_delivery_status,
               [ dry_run |-> dr, batch_size |-> bs, answer |-> Lower(response) ],
               response, TRUE, { "client" })

\* connect, lines 108-129, with run_operation, lines 330-331
DeliveryStatusUpdater_connect == ScriptConnect(update_delivery_status)

\* run_operation, lines 334-342, with analyze_orders, lines 137-177
DeliveryStatusUpdater_analyze_orders ==
    /\ script = update_delivery_status
    /\ at = "analyze"
    /\ LET orders_to_process == Len(SelectSeq(store.orders, HasOldStatus))
       IN  IF orders_to_process = 0
           THEN /\ local' = [ local EXCEPT !.result = "true" ]
                /\ at' = "finally"
           ELSE /\ local' = [ local EXCEPT !.todo = orders_to_process ]
                /\ at' = "update"
    /\ issued' = issued \cup { "read" }
    /\ UNCHANGED << script, config, clients, store, status, began, done, planned >>
    /\ UNCHANGED migratorVars

\* The results update_delivery_status returns from its except clause,
\* lines 250-252.
DeliveryErrorResults(l) ==
    [ l EXCEPT !.cursor = << >>, !.batch = << >>, !.processed = 0,
               !.updated = 0, !.errors = 1 ]

\* Cursor.batch_size(n) of line 226 raises ValueError when n < 0.
CursorRaises(bs) == bs < 0

\* The progress test of line 238, processed % (batch_size * 5), raises
\* ZeroDivisionError when the batch size is 0.
ProgressRaises(bs) == bs = 0

\* update_delivery_status, lines 198-227: the dry-run count, or the cursor
DeliveryStatusUpdater_update_delivery_status ==
    /\ script = update_delivery_status
    /\ at = "update"
    /\ LET matching == SelectSeq(store.orders, HasOldStatus)
       IN  IF config.dry_run
           THEN /\ local' = [ local EXCEPT !.processed = Len(matching) ]
                /\ issued' = issued \cup { "read" }
                /\ at' = "verify"
           ELSE IF CursorRaises(config.batch_size)
           THEN /\ local' = DeliveryErrorResults(local)
                /\ issued' = issued
                /\ at' = "verify"
           ELSE /\ local' = [ local EXCEPT !.cursor = IdsOf(matching),
                                           !.batch = << >> ]
                /\ issued' = issued \cup { "read" }
                /\ at' = "loop"
    /\ UNCHANGED << script, config, clients, store, status, began, done, planned >>
    /\ UNCHANGED migratorVars

\* _process_batch: update_many sets deliveryStatus to value on the batch and
\* returns its modified_count, or raises, which is logged and counts as 0.
\* When the caller raises after it (raises), the results are those of the
\* except clause of the caller.
ProcessBatch(value, order_ids, rest, processed, raises) ==
    LET after == UpdateMany(store.orders, order_ids, "deliveryStatus", value)
        Results(l) == IF raises THEN DeliveryErrorResults(l) ELSE l
    IN  /\ issued' = issued \cup { "update_many" }
        /\ \/ /\ store' = [ store EXCEPT !.orders = after ]
              /\ local' = Results([ local EXCEPT
                              !.cursor = rest, !.batch = << >>,
                              !.processed = processed,
                              !.updated = @ + ModifiedCount(store.orders, after) ])
           \/ /\ store' = store
              /\ local' = Results([ local EXCEPT
                              !.cursor = rest, !.batch = << >>,
                              !.processed = processed, !.failed = TRUE ])

\* One pass of the loop over the cursor: the order joins the batch, and a
\* batch that has reached the batch size is processed.
NextOrder(s, value) ==
    /\ script = s
    /\ at = "loop"
    /\ local.cursor # << >>
    /\ LET batch == Append(local.batch, Head(local.cursor))
       IN  IF Len(batch) >= config.batch_size
           THEN /\ ProcessBatch(value, batch, Tail(local.cursor),
                                local.processed + 1,
                                ProgressRaises(config.batch_size))
                /\ at' = IF ProgressRaises(config.batch_size) THEN "verify"
                         ELSE "loop"
           ELSE /\ local' = [ local EXCEPT !.cursor = Tail(@), !.batch = batch,
                                           !.processed = @ + 1 ]
                /\ UNCHANGED << store, issued, at >>
    /\ UNCHANGED << script, config, clients, status, began, done, planned >>
    /\ UNCHANGED migratorVars

\* The end of the loop: the last, partial batch.
LastBatch(s, value) ==
    /\ script = s
    /\ at = "loop"
    /\ local.cursor = << >>
    /\ IF local.batch # << >>
       THEN ProcessBatch(value, local.batch, << >>, local.processed, FALSE)
       ELSE UNCHANGED << store, local, issued >>
    /\ at' = "verify"
    /\ UNCHANGED << script, config, clients, status, began, done, planned >>
    /\ UNCHANGED migratorVars

\* one pass of the loop of lines 229-241, with _process_batch, lines 254-275
DeliveryStatusUpdater_next_order == NextOrder(update_delivery_status, new_status)

\* the end of the loop, lines 243-248
DeliveryStatusUpdater_last_batch == LastBatch(update_delivery_status, new_status)

\* run_operation, lines 347-374, with verify_operation, lines 277-302: the
\* counts are displayed and the run returns True
DeliveryStatusUpdater_verify_operation ==
    /\ script = update_delivery_status
    /\ at = "verify"
    /\ local' = [ local EXCEPT
                    !.result = "true",
                    !.todo = IF config.dry_run THEN @
                             ELSE Len(SelectSeq(store.orders, HasOldStatus)) ]
    /\ issued' = IF config.dry_run THEN issued ELSE issued \cup { "read" }
    /\ at' = "finally"
    /\ UNCHANGED << script, config, clients, store, status, began, done, planned >>
    /\ UNCHANGED migratorVars

\* disconnect, lines 131-135, from the finally of line 379
DeliveryStatusUpdater_disconnect == ScriptDisconnect(update_delivery_status)

\* main, lines 486-488
DeliveryStatusUpdater_exit == ScriptExit(update_delivery_status)

\* main, lines 489-491
DeliveryStatusUpdater_interrupt ==
    ScriptInterrupt(update_delivery_status,
                    { "analyze", "update", "loop", "verify" })

NextDelivery ==
    \/ \E dr \in BOOLEAN, bs \in BatchSizes, response \in Responses :
           DeliveryStatusUpdater_main(dr, bs, response)
    \/ DeliveryStatusUpdater_connect
    \/ DeliveryStatusUpdater_analyze_orders
    \/ DeliveryStatusUpdater_update_delivery_status
    \/ DeliveryStatusUpdater_next_order
    \/ DeliveryStatusUpdater_last_batch
    \/ DeliveryStatusUpdater_verify_operation
    \/ DeliveryStatusUpdater_disconnect
    \/ DeliveryStatusUpdater_exit
    \/ DeliveryStatusUpdater_interrupt

InitDelivery == InitDeliveryOf(MaxOrders, 1)

SpecDelivery == InitDelivery /\ [][NextDelivery]_vars


-----------------------------------------------------------------------------
(* Vocabulary of the claims about the delivery-status script *)

\* The last run of the script that has ended.
LastRun == done[Len(done)]

\* A live run of the delivery-status script has returned and none of its
\* batch writes failed; began is still the store it started from.
DeliveryRunReturned ==
    /\ script = update_delivery_status
    /\ at = "exit"
    /\ local.connect = "ok"
    /\ ~config.dry_run
    /\ ~local.failed

Rewritten(before, after) ==
    /\ Len(after) = Len(before)
    /\ \A i \in DOMAIN before :
           /\ after[i]._id = before[i]._id
           /\ after[i].deliveryStatus =
                  IF before[i].deliveryStatus = old_status THEN new_status
                  ELSE before[i].deliveryStatus

\* C19: after a live run of the delivery-status script with no batch
\* failure, whatever the batch size and the number of matching orders, every
\* order that had PREPARING_FOR_DISPATCH has PREPARING and every other order
\* is as it was.
C19_StatusRewrite ==
    DeliveryRunReturned => Rewritten(began.orders, store.orders)

\* The same for the batch sizes of at least 1: the loop of lines 229-248
\* rewrites every matching order, the last partial batch included.
C19_PositiveBatchSize ==
    (DeliveryRunReturned /\ config.batch_size >= 1)
        => Rewritten(began.orders, store.orders)

C19_PartialBatch ==
    /\ DeliveryRunReturned
    /\ config.batch_size = 2
    /\ Len(SelectSeq(began.orders, HasOldStatus)) = 3
    /\ \E i \in DOMAIN began.orders : began.orders[i].deliveryStatus = new_status
    /\ Rewritten(began.orders, store.orders)


-----------------------------------------------------------------------------
(* copy_phone_fields.py *)

MaxRerunPhoneUsers == 1

copy_phone_fields == "copy_phone_fields"

FalseV == [t |-> "bool", v |-> "false"]

\* self.field_mappings, old field -> new field
field_mappings ==
    { << "phone", "phoneNumber" >>,
      << "phoneVerification", "phoneNumberVerification" >> }

\* {field: {'$exists': True}}
Exists(doc, field) == doc[field] # Absent

\* doc.get(field) is None: the field is missing or null
IsNone(doc, field) == doc[field] \in { Absent, Null }

\* _build_query, lines 167-196
PhoneQuery(doc, skip_existing) ==
    \E m \in field_mappings :
        /\ Exists(doc, m[1])
        /\ skip_existing => ~Exists(doc, m[2])

SkipExistingIgnored(skip_existing) == FALSE

\* not self.skip_existing lets an existing target be overwritten, line 369
SkipExistingHonoured(skip_existing) == skip_existing

\* The mappings _perform_updates puts in update_operations, lines 364-371
UpdateOperations(doc, skip_existing) ==
    { m \in field_mappings :
        /\ ~IsNone(doc, m[1])
        /\ IsNone(doc, m[2]) \/ ~SkipExistingHonoured(skip_existing) }

\* update_one({'_id': doc['_id']}, {'$set': update_operations})
SetOperations(doc, ops) ==
    [ f \in DOMAIN doc |->
        IF \E m \in ops : m[2] = f
        THEN doc[(CHOOSE m \in ops : m[2] = f)[1]]
        ELSE doc[f] ]

PhoneUserDocs(i) ==
    { [ _id |-> OidV(DocHex(i)), phone |-> p, phoneNumber |-> pn,
        phoneVerification |-> pv, phoneNumberVerification |-> pnv ] :
        p \in { Absent, Null, StrV("p") },
        pn \in { Absent, Null, StrV("q") },
        pv \in { Absent, FalseV, StrV("v") },
        pnv \in { Absent, StrV("w") } }

\* Every users collection of at most n documents.
PhoneStores(n) ==
    UNION { { [ users |-> us ] :
                us \in { f \in [ 1..k -> UNION { PhoneUserDocs(i) : i \in 1..k } ] :
                           \A i \in 1..k : f[i] \in PhoneUserDocs(i) } } :
            k \in 0..n }

PhoneBatchSizes == { -1, 1 }

InitPhoneOf(n, runs) ==
    /\ MigratorIdle
    /\ \E st \in PhoneStores(n) : InitScript(copy_phone_fields, st, runs)

IndexOfId(docs, id) == CHOOSE i \in DOMAIN docs : docs[i]._id = id

\* main, lines 494-536
PhoneFieldsCopier_main(dr, skip, bs, response) ==
    ScriptMain(copy_phone_fields,
               [ dry_run |-> dr, batch_size |-> bs, answer |-> Lower(response),
                 skip_existing |-> skip ],
               response, TRUE, { "client" })

\* connect, lines 137-159, with copy_phone_fields, lines 275-276
PhoneFieldsCopier_connect == ScriptConnect(copy_phone_fields)

\* copy_phone_fields, lines 278-295, with analyze_collection, lines 198-238,
\* _preview_updates, lines 316-343, and the cursor of _perform_updates,
\* lines 357-359
PhoneFieldsCopier_analyze_collection ==
    /\ script = copy_phone_fields
    /\ at = "analyze"
    /\ LET matching ==
               SelectSeq(store.users,
                         LAMBDA doc : PhoneQuery(doc, config.skip_existing))
           documents_to_update == Len(matching)
       IN  IF documents_to_update = 0 \/ config.dry_run
           THEN /\ local' = [ local EXCEPT !.todo = documents_to_update,
                                           !.result = "true" ]
                /\ at' = "finally"
           ELSE IF CursorRaises(config.batch_size)
           THEN /\ local' = [ local EXCEPT !.todo = documents_to_update,
                                           !.result = "false" ]
                /\ at' = "finally"
           ELSE /\ local' = [ local EXCEPT !.todo = documents_to_update,
                                           !.cursor = IdsOf(matching) ]
                /\ at' = "loop"
    /\ issued' = issued \cup { "read" }
    /\ UNCHANGED << script, config, clients, store, status, began, done, planned >>
    /\ UNCHANGED migratorVars

\* one pass of the loop of _perform_updates, lines 361-392
PhoneFieldsCopier_next_doc ==
    /\ script = copy_phone_fields
    /\ at = "loop"
    /\ local.cursor # << >>
    /\ LET i == IndexOfId(store.users, Head(local.cursor))
           doc == store.users[i]
           update_operations == UpdateOperations(doc, config.skip_existing)
       IN  IF update_operations = {}
           THEN /\ local' = [ local EXCEPT !.cursor = Tail(@), !.processed = @ + 1 ]
                /\ UNCHANGED << store, issued >>
           ELSE /\ issued' = issued \cup { "update_one" }
                /\ \/ /\ store' = [ store EXCEPT
                                      !.users[i] = SetOperations(doc, update_operations) ]
                      /\ local' = [ local EXCEPT !.cursor = Tail(@),
                                                 !.processed = @ + 1,
                                                 !.updated = @ + 1 ]
                   \/ /\ store' = store
                      /\ local' = [ local EXCEPT !.cursor = Tail(@),
                                                 !.errors = @ + 1,
                                                 !.failed = TRUE ]
    /\ UNCHANGED << script, at, config, clients, status, began, done, planned >>
    /\ UNCHANGED migratorVars

\* the end of the loop, lines 394-399, and the summary of copy_phone_fields,
\* lines 297-308
PhoneFieldsCopier_summary ==
    /\ script = copy_phone_fields
    /\ at = "loop"
    /\ local.cursor = << >>
    /\ local' = [ local EXCEPT
                    !.result = IF local.processed = local.todo THEN "true"
                               ELSE "false" ]
    /\ at' = "finally"
    /\ UNCHANGED << script, config, clients, store, status, issued, began, done,
                    planned >>
    /\ UNCHANGED migratorVars

\* disconnect, lines 161-165, from the finally of line 313
PhoneFieldsCopier_disconnect == ScriptDisconnect(copy_phone_fields)

\* main, lines 538-540
PhoneFieldsCopier_exit == ScriptExit(copy_phone_fields)

\* main, lines 541-543
PhoneFieldsCopier_interrupt ==
    ScriptInterrupt(copy_phone_fields, { "analyze", "loop" })

NextPhone ==
    \/ \E dr \in BOOLEAN, skip \in BOOLEAN, bs \in PhoneBatchSizes,
          response \in Responses :
           PhoneFieldsCopier_main(dr, skip, bs, response)
    \/ PhoneFieldsCopier_connect
    \/ PhoneFieldsCopier_analyze_collection
    \/ PhoneFieldsCopier_next_doc
    \/ PhoneFieldsCopier_summary
    \/ PhoneFieldsCopier_disconnect
    \/ PhoneFieldsCopier_exit
    \/ PhoneFieldsCopier_interrupt

\* Two runs of the script, one after the other, on the same store.
InitPhoneRerun == InitPhoneOf(MaxRerunPhoneUsers, 2)

SpecPhoneRerun == InitPhoneRerun /\ [][NextPhone]_vars

-----------------------------------------------------------------------------
(* Vocabulary of the claims about the phone-copy script *)

\* A second run is under way or has returned, with skip-existing, after a
\* live first run that processed every document it selected.
PhoneRerun ==
    /\ script = copy_phone_fields
    /\ Len(done) = 1
    /\ done[1].live
    /\ done[1].result = "true"
    /\ at # "idle"
    /\ ~config.dry_run
    /\ config.skip_existing

\* C20: with skip-existing, after a live phone-copy run in which every
\* update succeeded, a second live run modifies no document of the users
\* collection: it issues no update and the collection stays as it was.
C20_RerunNoOp ==
    PhoneRerun => store = began /\ "update_one" \notin issued

\* The first run copied a field, and the second run has gone through its
\* loop over a document the query still selects.
C20_Witness ==
    /\ PhoneRerun
    /\ at = "exit"
    /\ local.connect = "ok"
    /\ local.processed >= 1
    /\ \E i \in DOMAIN store.users :
           /\ store.users[i].phoneNumberVerification = StrV("v")
           /\ store.users[i].phone = Null
           /\ store.users[i].phoneNumber = Absent


-----------------------------------------------------------------------------
(* update_orders_by_date_range.py *)

update_orders_by_date_range == "update_orders_by_date_range"

Days == { 1, 2 }

\* A datetime is a day and a time of day: 0 is 00:00:00, 1 is 12:00:00, 2 is
\* 23:59:59 and EndOfDay is 23:59:59.999999.
EndOfDay == 3
PartsPerDay == 4
Instant(day, part) == day * PartsPerDay + part

\* The strings given as --start-date and --end-date: YYYY-MM-DD, a
\* YYYY-MM-DDTHH:MM:SS datetime, or a string in no supported format.
DateOnly(day) == [ day |-> day, part |-> 0, form |-> "date" ]
DateTime(day, part) == [ day |-> day, part |-> part, form |-> "datetime" ]
BadDate == [ day |-> 0, part |-> 0, form |-> "bad" ]

DateStrings == { DateOnly(d) : d \in Days } \cup { DateTime(1, 1), BadDate }

\* parse_date raises ValueError, lines 160-165
ParseRaises(date_str) == date_str.form = "bad"

\* parse_date, lines 131-165
parse_date(date_str, is_end_date) ==
    IF date_str.form = "date"
    THEN Instant(date_str.day, IF is_end_date THEN EndOfDay ELSE 0)
    ELSE Instant(date_str.day, date_str.part)

DatesNeverRejected(start_date, end_date) == FALSE

\* validate_dates raises ValueError, lines 167-170
DatesRejected(start_date, end_date) == start_date >= end_date

\* __init__, lines 124-127, raises ValueError
DateRangeInvalid(start, end) ==
    \/ ParseRaises(start)
    \/ ParseRaises(end)
    \/ DatesRejected(parse_date(start, FALSE), parse_date(end, TRUE))

target_payment_statuses == { StrV("CASH_ON_DELIVERY"), StrV("PAID") }
target_delivery_statuses == { StrV("PENDING"), StrV("DISPATCHED"), StrV("PREPARING") }
new_delivery_status == StrV("DELIVERED")

\* createdAt in the range, lines 428-431
InRange(doc, cfg) ==
    /\ doc.createdAt >= parse_date(cfg.start_date, FALSE)
    /\ doc.createdAt <= parse_date(cfg.end_date, TRUE)

\* query of update_orders_in_range, lines 427-434
MatchesCriteria(doc, cfg) ==
    /\ InRange(doc, cfg)
    /\ doc.paymentStatus \in target_payment_statuses
    /\ doc.deliveryStatus \in target_delivery_statuses

DateRangeOrders(i) ==
    { [ _id |-> OidV(DocHex(i)), deliveryStatus |-> d, createdAt |-> c,
        paymentStatus |-> p ] :
        c \in { Instant(1, 1), Instant(1, EndOfDay), Instant(2, 0) },
        p \in { StrV("PAID"), StrV("FAILED") },
        d \in { StrV("PENDING"), StrV("DELIVERED") } }

\* Every orders collection of at most n documents.
DateRangeStores(n) ==
    UNION { { [ orders |-> os ] :
                os \in { f \in [ 1..k -> UNION { DateRangeOrders(i) : i \in 1..k } ] :
                           \A i \in 1..k : f[i] \in DateRangeOrders(i) } } :
            k \in 0..n }

InitDateRangeOf(n, runs) ==
    /\ MigratorIdle
    /\ \E st \in DateRangeStores(n) :
           InitScript(update_orders_by_date_range, st, runs)

\* main, lines 693-746, with __init__, lines 93-129
OrderDateRangeUpdater_main(start, end, dr, bs, response) ==
    ScriptMain(update_orders_by_date_range,
               [ dry_run |-> dr, batch_size |-> bs, answer |-> Lower(response),
                 start_date |-> start, end_date |-> end ],
               response, ~DateRangeInvalid(start, end), { "client" })

\* connect, lines 184-205, with run_operation, lines 569-570
OrderDateRangeUpdater_connect == ScriptConnect(update_orders_by_date_range)

\* run_operation, lines 572-580, with analyze_orders, lines 213-328
OrderDateRangeUpdater_analyze_orders ==
    /\ script = update_orders_by_date_range
    /\ at = "analyze"
    /\ LET orders_to_process ==
               Len(SelectSeq(store.orders, LAMBDA doc : MatchesCriteria(doc, config)))
       IN  IF orders_to_process = 0
           THEN /\ local' = [ local EXCEPT !.result = "true" ]
                /\ at' = "finally"
           ELSE /\ local' = [ local EXCEPT !.todo = orders_to_process ]
                /\ at' = "update"
    /\ issued' = issued \cup { "read" }
    /\ UNCHANGED << script, config, clients, store, status, began, done, planned >>
    /\ UNCHANGED migratorVars

\* update_orders_in_range, lines 409-445: the dry-run count, or the cursor
OrderDateRangeUpdater_update_orders_in_range ==
    /\ script = update_orders_by_date_range
    /\ at = "update"
    /\ LET matching ==
               SelectSeq(store.orders, LAMBDA doc : MatchesCriteria(doc, config))
       IN  IF config.dry_run
           THEN /\ local' = [ local EXCEPT !.processed = Len(matching) ]
                /\ issued' = issued \cup { "read" }
                /\ at' = "verify"
           ELSE IF CursorRaises(config.batch_size)
           THEN /\ local' = DeliveryErrorResults(local)
                /\ issued' = issued
                /\ at' = "verify"
           ELSE /\ local' = [ local EXCEPT !.cursor = IdsOf(matching),
                                           !.batch = << >> ]
                /\ issued' = issued \cup { "read" }
                /\ at' = "loop"
    /\ UNCHANGED << script, config, clients, store, status, began, done, planned >>
    /\ UNCHANGED migratorVars

\* one pass of the loop of lines 447-459, with _process_batch, lines 472-493
OrderDateRangeUpdater_next_order ==
    NextOrder(update_orders_by_date_range, new_delivery_status)

\* the end of the loop, lines 461-466
OrderDateRangeUpdater_last_batch ==
    LastBatch(update_orders_by_date_range, new_delivery_status)

\* run_operation, lines 585-617, with verify_operation, lines 495-539: the
\* counts are displayed and the run returns True
OrderDateRangeUpdater_verify_operation ==
    /\ script = update_orders_by_date_range
    /\ at = "verify"
    /\ local' = [ local EXCEPT
                    !.result = "true",
                    !.todo = IF config.dry_run THEN @
                             ELSE Len(SelectSeq(store.orders,
                                        LAMBDA doc : MatchesCriteria(doc, config))) ]
    /\ issued' = IF config.dry_run THEN issued ELSE issued \cup { "read" }
    /\ at' = "finally"
    /\ UNCHANGED << script, config, clients, store, status, began, done, planned >>
    /\ UNCHANGED migratorVars

\* disconnect, lines 207-211, from the finally of line 623
OrderDateRangeUpdater_disconnect == ScriptDisconnect(update_orders_by_date_range)

\* main, lines 748-750
OrderDateRangeUpdater_exit == ScriptExit(update_orders_by_date_range)

\* main, lines 751-753
OrderDateRangeUpdater_interrupt ==
    ScriptInterrupt(update_orders_by_date_range,
                    { "analyze", "update", "loop", "verify" })

NextDateRange ==
    \/ \E start \in DateStrings, end \in DateStrings, dr \in BOOLEAN,
          bs \in BatchSizes, response \in Responses :
           OrderDateRangeUpdater_main(start, end, dr, bs, response)
    \/ OrderDateRangeUpdater_connect
    \/ OrderDateRangeUpdater_analyze_orders
    \/ OrderDateRangeUpdater_update_orders_in_range
    \/ OrderDateRangeUpdater_next_order
    \/ OrderDateRangeUpdater_last_batch
    \/ OrderDateRangeUpdater_verify_operation
    \/ OrderDateRangeUpdater_disconnect
    \/ OrderDateRangeUpdater_exit
    \/ OrderDateRangeUpdater_interrupt


-----------------------------------------------------------------------------
(* populate_test_with_prod.py *)

populate_test_with_prod == "populate_test_with_prod"

\* A database is a function from the names of its collections to their
\* documents; the two databases of a run that passed validation are
\* different ones.  prod_indexes and test_indexes are the collections that
\* have an index besides _id_.
write_access_test == "_mongo_write_access_test"

\* the order in which list_collection_names returns the names
ListOrder == << "orders", "sessions", "system.profile", write_access_test >>

IsSystem(name) == name = "system.profile"

\* Mutant of Drop: the collection stays as it is.
NoDrop(db, name) == db

\* collection.drop()
Drop(db, name) == [ c \in DOMAIN db \ { name } |-> db[c] ]

\* collection.insert_many(docs) and insert_one(doc)
InsertMany(db, name, docs) ==
    [ c \in DOMAIN db \cup { name } |->
        IF c = name
        THEN (IF name \in DOMAIN db THEN db[name] ELSE << >>) \o docs
        ELSE db[c] ]

ProdDoc(name, i) == StrV(name \o "-" \o ToString(i))
TestDoc(name) == StrV(name \o "-old")

\* The production databases with at most n documents in a collection, and
\* the test databases they are copied to.
ProdDatabases(n) ==
    UNION { { f \in [ D -> UNION { { [ i \in 1..k |-> i ] } : k \in 0..n } ] :
                \A c \in D \ { "orders" } : Len(f[c]) = n } :
            D \in SUBSET { "orders", "sessions", "system.profile" } }

NamedDocs(db) ==
    [ c \in DOMAIN db |-> [ i \in DOMAIN db[c] |-> ProdDoc(c, i) ] ]

TestDatabases ==
    UNION { { [ c \in D |-> << TestDoc(c) >> ] } : D \in SUBSET { "orders", "sessions" } }

DuplicatorStores(n) ==
    { [ prod |-> NamedDocs(p), test |-> t, prod_indexes |-> pi,
        test_indexes |-> {} ] :
        p \in ProdDatabases(n), t \in TestDatabases,
        pi \in { {}, { "orders" } } }

\* prod_uri and prod_db_name, and the test_uri and test_db_name given
prod_target == << "mongodb://a", "production" >>

TestTargets ==
    { << "mongodb://a", "production" >>, << "mongodb://a", "test" >>,
      << "mongodb://b", "production" >> }

ExcludedCollections == { {}, { "sessions" } }

DuplicatorBatchSizes == { -1, 0, 1, 2 }

\* _validate_different_databases, lines 117-124
validate_different_databases(cfg) ==
    ~(cfg.prod_uri = cfg.test_uri /\ cfg.prod_db_name = cfg.test_db_name)

InitDuplicatorOf(n, runs) ==
    /\ MigratorIdle
    /\ \E st \in { d \in DuplicatorStores(n) : d.prod_indexes \subseteq DOMAIN d.prod } :
           InitScript(populate_test_with_prod, st, runs)

DuplicatorConfig(target, excluded, dr, bs, response) ==
    [ dry_run |-> dr, batch_size |-> bs, answer |-> Lower(response),
      prod_uri |-> prod_target[1], test_uri |-> target[1],
      prod_db_name |-> prod_target[2], test_db_name |-> target[2],
      excluded_collections |-> excluded ]

\* main, lines 464-505, with __init__, lines 68-103
MongoDBDuplicator_main(target, excluded, dr, bs, response) ==
    LET cfg == DuplicatorConfig(target, excluded, dr, bs, response)
    IN  ScriptMain(populate_test_with_prod, cfg, response,
                   validate_different_databases(cfg),
                   { "prod_client", "test_client" })

\* connect, lines 126-157, with _check_production_readonly, lines 159-194,
\* and duplicate_database, lines 354-355.  A connection or ping error leaves
\* the clients made so far open.  The write test inserts a document in the
\* production database: when that raises production is read-only; when it
\* succeeds the test collection is dropped and connect() returns False; when
\* the drop raises, the handler of the write test takes production for
\* read-only and the test collection stays.
MongoDBDuplicator_connect ==
    /\ script = populate_test_with_prod
    /\ at = "connect"
    /\ \/ /\ clients' \in { [ prod_client |-> "none", test_client |-> "none" ],
                            [ prod_client |-> "open", test_client |-> "none" ],
                            [ prod_client |-> "open", test_client |-> "open" ] }
          /\ local' = [ local EXCEPT !.connect = "failed", !.result = "false" ]
          /\ at' = "exit"
          /\ UNCHANGED << store, issued >>
       \/ /\ clients' = [ prod_client |-> "open", test_client |-> "open" ]
          /\ LET written == InsertMany(store.prod, write_access_test,
                                       << StrV("test") >>)
             IN  \/ /\ issued' = issued \cup { "read", "insert_one" }
                    /\ store' = store
                    /\ local' = [ local EXCEPT !.connect = "ok" ]
                    /\ at' = "names"
                 \/ /\ issued' = issued \cup { "read", "insert_one", "drop" }
                    /\ store' = [ store EXCEPT
                                    !.prod = Drop(written, write_access_test) ]
                    /\ local' = [ local EXCEPT !.connect = "writable",
                                               !.result = "false" ]
                    /\ at' = "exit"
                 \/ /\ issued' = issued \cup { "read", "insert_one", "drop" }
                    /\ store' = [ store EXCEPT !.prod = written ]
                    /\ local' = [ local EXCEPT !.connect = "ok" ]
                    /\ at' = "names"
    /\ UNCHANGED << script, config, status, began, done, planned >>
    /\ UNCHANGED migratorVars

\* get_collection_names, lines 204-225, with duplicate_database, lines 358-361
MongoDBDuplicator_get_collection_names ==
    /\ script = populate_test_with_prod
    /\ at = "names"
    /\ LET collections ==
               SelectSeq(ListOrder,
                         LAMBDA c : /\ c \in DOMAIN store.prod
                                    /\ ~IsSystem(c)
                                    /\ c \notin config.excluded_collections)
       IN  IF collections = << >>
           THEN /\ local' = [ local EXCEPT !.result = "true" ]
                /\ at' = "finally"
           ELSE /\ local' = [ local EXCEPT !.names = collections ]
                /\ at' = "copy"
    /\ issued' = issued \cup { "read" }
    /\ UNCHANGED << script, config, clients, store, status, began, done, planned >>
    /\ UNCHANGED migratorVars

\* copy_collection_data has returned for the collection at the head of names.
CollectionDone(l, ok) ==
    [ l EXCEPT !.names = Tail(@),
               !.failed_names = IF ok THEN @ ELSE @ \cup { Head(l.names) },
               !.failed = @ \/ ~ok,
               !.processed = @ + 1,
               !.cursor = << >>, !.batch = << >> ]

AfterCollection(l) == IF Tail(l.names) = << >> THEN "summary" ELSE "copy"

\* copy_collection_data, lines 264-300: the count, the dry run, the drop of
\* the test collection and the cursor on the production collection
MongoDBDuplicator_copy_collection_data ==
    /\ script = populate_test_with_prod
    /\ at = "copy"
    /\ LET collection_name == Head(local.names)
           total_docs == Len(store.prod[collection_name])
           dropped == [ store EXCEPT
                          !.test = Drop(@, collection_name),
                          !.test_indexes = @ \ { collection_name } ]
       IN  IF config.dry_run
           THEN /\ issued' = issued \cup { "read" }
                /\ local' = CollectionDone(local, TRUE)
                /\ at' = AfterCollection(local)
                /\ store' = store
           ELSE /\ issued' = issued \cup { "read", "drop" }
                /\ \/ /\ store' = store
                      /\ local' = CollectionDone(local, FALSE)
                      /\ at' = AfterCollection(local)
                   \/ /\ store' = dropped
                      /\ IF total_docs = 0
                         THEN /\ local' = CollectionDone(local, TRUE)
                              /\ at' = AfterCollection(local)
                         ELSE IF CursorRaises(config.batch_size)
                         THEN /\ local' = CollectionDone(local, FALSE)
                              /\ at' = AfterCollection(local)
                         ELSE /\ local' = [ local EXCEPT
                                              !.cursor = store.prod[collection_name],
                                              !.batch = << >> ]
                              /\ at' = "insert"
    /\ UNCHANGED << script, config, clients, status, began, done, planned >>
    /\ UNCHANGED migratorVars

\* one pass of the loop of copy_collection_data, lines 302-312: insert_many
\* on a batch that has reached the batch size
MongoDBDuplicator_next_document ==
    /\ script = populate_test_with_prod
    /\ at = "insert"
    /\ local.cursor # << >>
    /\ LET batch == Append(local.batch, Head(local.cursor))
       IN  IF Len(batch) >= config.batch_size
           THEN /\ issued' = issued \cup { "insert_many" }
                /\ \/ /\ store' = [ store EXCEPT
                                      !.test = InsertMany(@, Head(local.names), batch) ]
                      /\ local' = [ local EXCEPT !.cursor = Tail(@),
                                                 !.batch = << >>,
                                                 !.updated = @ + Len(batch) ]
                      /\ at' = at
                   \/ /\ store' = store
                      /\ local' = CollectionDone(local, FALSE)
                      /\ at' = AfterCollection(local)
           ELSE /\ local' = [ local EXCEPT !.cursor = Tail(@), !.batch = batch ]
                /\ UNCHANGED << store, issued, at >>
    /\ UNCHANGED << script, config, clients, status, began, done, planned >>
    /\ UNCHANGED migratorVars

\* copy_indexes, lines 227-262: create_index for every index of the source
\* but _id_; its failure is logged and its result is not looked at.
CopyIndexes(st, name) ==
    IF name \in st.prod_indexes
    THEN { st, [ st EXCEPT !.test_indexes = @ \cup { name } ] }
    ELSE { st }

\* the end of the loop of copy_collection_data, lines 314-324: the remaining
\* documents, then the indexes
MongoDBDuplicator_last_batch ==
    /\ script = populate_test_with_prod
    /\ at = "insert"
    /\ local.cursor = << >>
    /\ LET collection_name == Head(local.names)
           inserted == [ store EXCEPT
                           !.test = InsertMany(@, collection_name, local.batch) ]
       IN  \/ /\ local.batch # << >>
              /\ issued' = issued \cup { "insert_many" }
              /\ store' = store
              /\ local' = CollectionDone(local, FALSE)
           \/ /\ issued' = issued
                             \cup (IF local.batch # << >> THEN { "insert_many" } ELSE {})
                             \cup (IF collection_name \in store.prod_indexes
                                   THEN { "read", "create_index" } ELSE { "read" })
              /\ store' \in CopyIndexes(IF local.batch # << >> THEN inserted ELSE store,
                                        collection_name)
              /\ local' = CollectionDone(local, TRUE)
    /\ at' = AfterCollection(local)
    /\ UNCHANGED << script, config, clients, status, began, done, planned >>
    /\ UNCHANGED migratorVars

\* duplicate_database, lines 372-391: the summary and the return value
MongoDBDuplicator_summary ==
    /\ script = populate_test_with_prod
    /\ at = "summary"
    /\ local' = [ local EXCEPT
                    !.result = IF local.failed_names = {} THEN "true" ELSE "false" ]
    /\ at' = "finally"
    /\ UNCHANGED << script, config, clients, store, status, issued, began, done,
                    planned >>
    /\ UNCHANGED migratorVars

\* disconnect, lines 196-202, from the finally of line 395
MongoDBDuplicator_disconnect == ScriptDisconnect(populate_test_with_prod)

\* main, lines 507-509
MongoDBDuplicator_exit == ScriptExit(populate_test_with_prod)

\* main, lines 510-512
MongoDBDuplicator_interrupt ==
    ScriptInterrupt(populate_test_with_prod,
                    { "names", "copy", "insert", "summary" })

NextDuplicator ==
    \/ \E target \in TestTargets, excluded \in ExcludedCollections,
          dr \in BOOLEAN, bs \in DuplicatorBatchSizes, response \in Responses :
           MongoDBDuplicator_main(target, excluded, dr, bs, response)
    \/ MongoDBDuplicator_connect
    \/ MongoDBDuplicator_get_collection_names
    \/ MongoDBDuplicator_copy_collection_data
    \/ MongoDBDuplicator_next_document
    \/ MongoDBDuplicator_last_batch
    \/ MongoDBDuplicator_summary
    \/ MongoDBDuplicator_disconnect
    \/ MongoDBDuplicator_exit
    \/ MongoDBDuplicator_interrupt

MaxCopyDocs == 3

\* One run of the script on production collections of up to MaxCopyDocs
\* documents.
InitDuplicator == InitDuplicatorOf(MaxCopyDocs, 1)

SpecDuplicator == InitDuplicator /\ [][NextDuplicator]_vars

-----------------------------------------------------------------------------
(* rename_offers_id_field.py *)

rename_offers_id_field == "rename_offers_id_field"

\* An element of the offers array: an object with or without the keys id
\* and offerId and with another key, amount; or a value that is no object.
Offer(id, offerId, amount) ==
    [ id |-> id, offerId |-> offerId, amount |-> amount, dict |-> TRUE ]
NoObject ==
    [ id |-> Absent, offerId |-> Absent, amount |-> Absent, dict |-> FALSE ]

Offers ==
    { Offer(StrV("o1"), Absent, StrV("10")), Offer(StrV("o1"), StrV("x"), Absent),
      Offer(Null, Absent, Absent), Offer(Absent, StrV("x"), StrV("10")), NoObject }

\* isinstance(offer, dict) and 'id' in offer, line 214
HasId(offer) == offer.dict /\ offer.id # Absent

\* {'offers.id': {'$exists': True}}; a document without offers has none.
HasOfferWithId(doc) == \E i \in DOMAIN doc.offers : HasId(doc.offers[i])

\* Mutant of RenameOffer: the value is copied and the id key stays.
CopyOffer(offer) ==
    IF HasId(offer) THEN [ offer EXCEPT !.offerId = offer.id ]
    ELSE offer

\* updated_offer['offerId'] = updated_offer.pop('id'), lines 216-217
RenameOffer(offer) ==
    IF HasId(offer) THEN [ offer EXCEPT !.offerId = offer.id, !.id = Absent ]
    ELSE offer

\* updated_offers, lines 210-223
RenameOffers(offers) == [ i \in DOMAIN offers |-> RenameOffer(offers[i]) ]

MaxOffers == 2

RenameStores(n) ==
    { [ orders |-> os ] :
        os \in UNION { [ 1..k -> { [ _id |-> OidV(DocHex(i)), offers |-> o ] :
                                     i \in 1..n, o \in SeqsUpTo(Offers, MaxOffers) } ] :
                       k \in 0..n } }

InitRenameOf(n, runs) ==
    /\ MigratorIdle
    /\ \E st \in { r \in RenameStores(n) :
                     \A i \in DOMAIN r.orders : r.orders[i]._id = OidV(DocHex(i)) } :
           InitScript(rename_offers_id_field, st, runs)

\* main, lines 414-458
OffersFieldRenamer_main(dr, bs, response) ==
    ScriptMain(rename_offers_id_field,
               [ dry_run |-> dr, batch_size |-> bs, answer |-> Lower(response) ],
               response, TRUE, { "client" })

\* connect, lines 102-123, with run_operation, lines 303-304
OffersFieldRenamer_connect == ScriptConnect(rename_offers_id_field)

\* run_operation, lines 306-315, with analyze_orders, lines 131-160
OffersFieldRenamer_analyze_orders ==
    /\ script = rename_offers_id_field
    /\ at = "analyze"
    /\ LET orders_to_process == Len(SelectSeq(store.orders, HasOfferWithId))
       IN  IF orders_to_process = 0
           THEN /\ local' = [ local EXCEPT !.result = "true" ]
                /\ at' = "finally"
           ELSE /\ local' = [ local EXCEPT !.todo = orders_to_process ]
                /\ at' = "update"
    /\ issued' = issued \cup { "read" }
    /\ UNCHANGED << script, config, clients, store, status, began, done, planned >>
    /\ UNCHANGED migratorVars

\* rename_offers_id_field, lines 175-204: the dry-run count, or the cursor
OffersFieldRenamer_rename_offers_id_field ==
    /\ script = rename_offers_id_field
    /\ at = "update"
    /\ LET matching == SelectSeq(store.orders, HasOfferWithId)
       IN  IF config.dry_run
           THEN /\ local' = [ local EXCEPT !.processed = Len(matching) ]
                /\ issued' = issued \cup { "read" }
                /\ at' = "verify"
           ELSE IF CursorRaises(config.batch_size)
           THEN /\ local' = DeliveryErrorResults(local)
                /\ issued' = issued
                /\ at' = "verify"
           ELSE /\ local' = [ local EXCEPT !.cursor = IdsOf(matching) ]
                /\ issued' = issued \cup { "read" }
                /\ at' = "loop"
    /\ UNCHANGED << script, config, clients, store, status, began, done, planned >>
    /\ UNCHANGED migratorVars

\* one pass of the loop of lines 206-240: update_one sets the offers array
\* of the order to its renamed copy, or raises, which is counted
OffersFieldRenamer_next_order ==
    /\ script = rename_offers_id_field
    /\ at = "loop"
    /\ local.cursor # << >>
    /\ LET i == IndexOfId(store.orders, Head(local.cursor))
           updated_offers == RenameOffers(store.orders[i].offers)
       IN  /\ issued' = issued \cup { "update_one" }
           /\ \/ /\ store' = [ store EXCEPT !.orders[i].offers = updated_offers ]
                 /\ local' = [ local EXCEPT !.cursor = Tail(@),
                                            !.processed = @ + 1,
                                            !.updated = @ + 1 ]
              \/ /\ store' = store
                 /\ local' = [ local EXCEPT !.cursor = Tail(@),
                                            !.processed = @ + 1,
                                            !.errors = @ + 1,
                                            !.failed = TRUE ]
    /\ at' = IF Tail(local.cursor) = << >> THEN "verify" ELSE "loop"
    /\ UNCHANGED << script, config, clients, status, began, done, planned >>
    /\ UNCHANGED migratorVars

\* run_operation, lines 320-346, with verify_operation, lines 249-274: the
\* counts are displayed and the run returns True
OffersFieldRenamer_verify_operation ==
    /\ script = rename_offers_id_field
    /\ at = "verify"
    /\ local' = [ local EXCEPT
                    !.result = "true",
                    !.todo = IF config.dry_run THEN @
                             ELSE Len(SelectSeq(store.orders, HasOfferWithId)) ]
    /\ issued' = IF config.dry_run THEN issued ELSE issued \cup { "read" }
    /\ at' = "finally"
    /\ UNCHANGED << script, config, clients, store, status, began, done, planned >>
    /\ UNCHANGED migratorVars

\* disconnect, lines 125-129, from the finally of line 352
OffersFieldRenamer_disconnect == ScriptDisconnect(rename_offers_id_field)

\* main, lines 460-462
OffersFieldRenamer_exit == ScriptExit(rename_offers_id_field)

\* main, lines 463-465
OffersFieldRenamer_interrupt ==
    ScriptInterrupt(rename_offers_id_field,
                    { "analyze", "update", "loop", "verify" })

NextRename ==
    \/ \E dr \in BOOLEAN, bs \in PhoneBatchSizes, response \in Responses :
           OffersFieldRenamer_main(dr, bs, response)
    \/ OffersFieldRenamer_connect
    \/ OffersFieldRenamer_analyze_orders
    \/ OffersFieldRenamer_rename_offers_id_field
    \/ OffersFieldRenamer_next_order
    \/ OffersFieldRenamer_verify_operation
    \/ OffersFieldRenamer_disconnect
    \/ OffersFieldRenamer_exit
    \/ OffersFieldRenamer_interrupt

MaxRenameOrders == 1

\* Two runs of the script, one after the other, on the same store.
InitRenameRerun == InitRenameOf(MaxRenameOrders, 2)

SpecRenameRerun == InitRenameRerun /\ [][NextRename]_vars

-----------------------------------------------------------------------------
(* update_users_name_field.py *)

update_users_name_field == "update_users_name_field"

\* str(value).strip()
Strip(s) ==
    CASE s = " Ann" -> "Ann"
      [] s = "Lee " -> "Lee"
      [] s = " " -> ""
      [] OTHER -> s

\* first_name is not None and first_name != '', lines 190-194
Clean(value) ==
    IF value \in { Absent, Null, StrV("") } THEN "" ELSE Strip(value.v)

\* _create_name_field, lines 175-205
create_name_field(first_name, last_name) ==
    LET first_name_clean == Clean(first_name)
        last_name_clean == Clean(last_name)
    IN  IF first_name_clean # "" /\ last_name_clean # ""
        THEN first_name_clean \o " " \o last_name_clean
        ELSE IF first_name_clean # "" THEN first_name_clean
        ELSE IF last_name_clean # "" THEN last_name_clean
        ELSE ""

\* _build_query, lines 159-173
NameQuery(doc, skip_existing) == skip_existing => doc.name = Absent

NameUserDocs(i) ==
    { [ _id |-> OidV(DocHex(i)), name |-> n, firstName |-> f, lastName |-> l ] :
        f \in { Absent, Null, StrV(" "), StrV(" Ann") },
        l \in { Absent, StrV(""), StrV("Lee ") },
        n \in { Absent, StrV("Ann Lee"), StrV("old") } }

NameStores(n) ==
    UNION { { [ users |-> us ] :
                us \in { f \in [ 1..k -> UNION { NameUserDocs(i) : i \in 1..k } ] :
                           \A i \in 1..k : f[i] \in NameUserDocs(i) } } :
            k \in 0..n }

InitNameOf(n, runs) ==
    /\ MigratorIdle
    /\ \E st \in NameStores(n) : InitScript(update_users_name_field, st, runs)

\* main, lines 533-573
UsersNameUpdater_main(dr, skip, bs, response) ==
    ScriptMain(update_users_name_field,
               [ dry_run |-> dr, batch_size |-> bs, answer |-> Lower(response),
                 skip_existing |-> skip ],
               response, TRUE, { "client" })

\* connect, lines 129-151, with update_users_name_field, lines 327-328
UsersNameUpdater_connect == ScriptConnect(update_users_name_field)

\* update_users_name_field, lines 330-345, with analyze_collection,
\* lines 207-288, _preview_updates, lines 368-389, and the cursor of
\* _perform_updates, lines 404-406
UsersNameUpdater_analyze_collection ==
    /\ script = update_users_name_field
    /\ at = "analyze"
    /\ LET matching ==
               SelectSeq(store.users,
                         LAMBDA doc : NameQuery(doc, config.skip_existing))
           documents_to_update == Len(matching)
       IN  IF documents_to_update = 0 \/ config.dry_run
           THEN /\ local' = [ local EXCEPT !.todo = documents_to_update,
                                           !.result = "true" ]
                /\ at' = "finally"
           ELSE IF CursorRaises(config.batch_size)
           THEN /\ local' = [ local EXCEPT !.todo = documents_to_update,
                                           !.result = "false" ]
                /\ at' = "finally"
           ELSE /\ local' = [ local EXCEPT !.todo = documents_to_update,
                                           !.cursor = IdsOf(matching) ]
                /\ at' = "loop"
    /\ issued' = issued \cup { "read" }
    /\ UNCHANGED << script, config, clients, store, status, began, done, planned >>
    /\ UNCHANGED migratorVars

\* one pass of the loop of _perform_updates, lines 408-431: update_one sets
\* name, and the document counts as updated when it was modified
UsersNameUpdater_next_doc ==
    /\ script = update_users_name_field
    /\ at = "loop"
    /\ local.cursor # << >>
    /\ LET i == IndexOfId(store.users, Head(local.cursor))
           doc == store.users[i]
           new_name == StrV(create_name_field(doc.firstName, doc.lastName))
       IN  /\ issued' = issued \cup { "update_one" }
           /\ \/ /\ store' = [ store EXCEPT !.users[i].name = new_name ]
                 /\ local' = [ local EXCEPT
                                 !.cursor = Tail(@),
                                 !.processed = @ + 1,
                                 !.updated = IF doc.name # new_name THEN @ + 1 ELSE @ ]
              \/ /\ store' = store
                 /\ local' = [ local EXCEPT !.cursor = Tail(@),
                                            !.errors = @ + 1,
                                            !.failed = TRUE ]
    /\ UNCHANGED << script, at, config, clients, status, began, done, planned >>
    /\ UNCHANGED migratorVars

\* the end of the loop, lines 433-438, and the summary of
\* update_users_name_field, lines 347-360
UsersNameUpdater_summary ==
    /\ script = update_users_name_field
    /\ at = "loop"
    /\ local.cursor = << >>
    /\ local' = [ local EXCEPT
                    !.result = IF local.updated = local.todo THEN "true"
                               ELSE "false" ]
    /\ at' = "finally"
    /\ UNCHANGED << script, config, clients, store, status, issued, began, done,
                    planned >>
    /\ UNCHANGED migratorVars

\* disconnect, lines 153-157, from the finally of line 365
UsersNameUpdater_disconnect == ScriptDisconnect(update_users_name_field)

\* main, lines 575-577
UsersNameUpdater_exit == ScriptExit(update_users_name_field)

\* main, lines 578-580
UsersNameUpdater_interrupt ==
    ScriptInterrupt(update_users_name_field, { "analyze", "loop" })

NextName ==
    \/ \E dr \in BOOLEAN, skip \in BOOLEAN, bs \in PhoneBatchSizes,
          response \in Responses :
           UsersNameUpdater_main(dr, skip, bs, response)
    \/ UsersNameUpdater_connect
    \/ UsersNameUpdater_analyze_collection
    \/ UsersNameUpdater_next_doc
    \/ UsersNameUpdater_summary
    \/ UsersNameUpdater_disconnect
    \/ UsersNameUpdater_exit
    \/ UsersNameUpdater_interrupt

-----------------------------------------------------------------------------
(* create_test_customers.py *)

create_test_customers == "create_test_customers"

\* test_customers, lines 26-46
test_customers == << "John Doe", "Jane Smith", "Bob Wilson" >>

\* The exit status of a process ended by an uncaught KeyboardInterrupt.
Interrupted == 130

\* The customers of the payment account.
InitCustomers(runs) ==
    /\ MigratorIdle
    /\ InitScript(create_test_customers, [ customers |-> << >> ], runs)

\* create_test_customers, lines 15-46: the credentials are read from the
\* environment; the operator is asked nothing.
create_test_customers_start(credentials) ==
    /\ script = create_test_customers
    /\ at = "idle"
    /\ Len(done) < planned
    /\ config' = [ dry_run |-> FALSE, answer |-> "none",
                   credentials |-> credentials ]
    /\ issued' = {}
    /\ began' = store
    /\ clients' = NoClients
    /\ IF ~credentials
       THEN ScriptEnded(0, Finished(config', "none", "none", FALSE, FALSE))
       ELSE /\ at' = "post"
            /\ local' = [ NewLocal EXCEPT !.cursor = test_customers ]
            /\ status' = -1
            /\ UNCHANGED done
    /\ UNCHANGED << script, store, planned >>
    /\ UNCHANGED migratorVars

\* one pass of the loop of lines 49-66: requests.post creates the customer
\* (status 200), or the API refuses, or the request raises
create_test_customers_post ==
    /\ script = create_test_customers
    /\ at = "post"
    /\ local.cursor # << >>
    /\ issued' = issued \cup { "post" }
    /\ \/ /\ store' = [ store EXCEPT !.customers = Append(@, Head(local.cursor)) ]
          /\ local' = [ local EXCEPT !.cursor = Tail(@), !.updated = @ + 1 ]
       \/ /\ store' = store
          /\ local' = [ local EXCEPT !.cursor = Tail(@), !.failed = TRUE ]
    /\ UNCHANGED << script, at, config, clients, status, began, done, planned >>
    /\ UNCHANGED migratorVars

\* lines 68-72: the count is printed and the process ends
create_test_customers_end ==
    /\ script = create_test_customers
    /\ at = "post"
    /\ local.cursor = << >>
    /\ ScriptEnded(0, Finished(config, "none", "none", FALSE, local.failed))
    /\ UNCHANGED << script, config, clients, store, issued, began, planned >>
    /\ UNCHANGED migratorVars

\* KeyboardInterrupt is not an Exception: line 65 does not catch it
create_test_customers_interrupt ==
    /\ script = create_test_customers
    /\ at = "post"
    /\ ScriptEnded(Interrupted, Finished(config, "none", "none", TRUE, local.failed))
    /\ UNCHANGED << script, config, clients, store, issued, began, planned >>
    /\ UNCHANGED migratorVars

NextCustomers ==
    \/ \E credentials \in BOOLEAN : create_test_customers_start(credentials)
    \/ create_test_customers_post
    \/ create_test_customers_end
    \/ create_test_customers_interrupt

-----------------------------------------------------------------------------
(* fetch_razorpay_customers.py *)

fetch_razorpay_customers == "fetch_razorpay_customers"

MaxPayments == 3

\* The depth of nested fetch_payments_batch calls at which the interpreter
\* raises RecursionError (sys.getrecursionlimit() bounds the stack; the
\* code has no bound of its own).
RecursionLimit == 3

\* self.batch_size = min(batch_size, 100), line 108
MaxCount == 100

\* if self.total_errors > 5, line 303
TooManyErrors == 5

Payment(id, email, contact) == [ id |-> id, email |-> email, contact |-> contact ]

\* The email and the contact a payment can carry.
PaymentCustomers == { << "a@x", "9" >>, << "", "9" >>, << "", "" >> }

\* The payments of the account, in the order the API lists them.
PaymentsUpTo(n) ==
    UNION { { [ i \in 1..k |-> Payment(i, f[i][1], f[i][2]) ] :
              f \in [ 1..k -> PaymentCustomers ] } : k \in 0..n }

\* RAZORPAY_BATCH_SIZE
FetchBatchSizes == { 1, 2, 101 }

\* GET /payments?count=..&skip=..: the items of a 200 response
Page(payments, skip, count) ==
    SubSeq(payments, skip + 1, Min(skip + count, Len(payments)))

\* aggregate_customer_data, lines 184-190: email if email else contact
customer_key(payment) ==
    IF payment.email # "" THEN payment.email ELSE payment.contact

\* extract_customer_from_payment, lines 163-180, and
\* aggregate_customer_data, lines 182-220: the payment_count per customer;
\* a payment with neither email nor contact is left out.
aggregate_customer_data(data, payment) ==
    LET key == customer_key(payment)
    IN  IF key = "" THEN data
        ELSE [ k \in DOMAIN data \cup { key } |->
                 IF k \notin DOMAIN data THEN 1
                 ELSE IF k = key THEN data[k] + 1 ELSE data[k] ]

\* the for loop of lines 321-329 over the payments of one batch
RECURSIVE AggregateBatch(_, _)
AggregateBatch(data, payments) ==
    IF payments = << >> THEN data
    ELSE AggregateBatch(aggregate_customer_data(data, Head(payments)), Tail(payments))

NoCustomers == [ k \in {} |-> 0 ]

\* __init__, lines 89-123, and the locals of
\* fetch_all_payments_and_extract_customers, lines 291-292
NewFetcher ==
    [ result |-> "none", connect |-> "none", failed |-> FALSE,
      skip |-> 0, has_more |-> TRUE, batch_count |-> 0,
      total_payments |-> 0, total_errors |-> 0,
      depth |-> 0,                      \* nested fetch_payments_batch calls
      customer_data |-> NoCustomers ]

InitFetchOf(n, runs) ==
    /\ MigratorIdle
    /\ \E payments \in PaymentsUpTo(n) :
           InitScript(fetch_razorpay_customers,
                      [ payments |-> payments, csv |-> NoCustomers ], runs)

\* main, lines 446-480: the configuration is read from the environment and
\* the operator is asked nothing; without credentials the process exits
\* with status 1.
RazorpayCustomerFetcher_main(credentials, dr, bs) ==
    /\ script = fetch_razorpay_customers
    /\ at = "idle"
    /\ Len(done) < planned
    /\ config' = [ dry_run |-> dr, batch_size |-> Min(bs, MaxCount),
                   answer |-> "none", credentials |-> credentials ]
    /\ issued' = {}
    /\ began' = store
    /\ clients' = NoClients
    /\ IF ~credentials
       THEN ScriptEnded(1, Finished(config', "invalid", "none", FALSE, FALSE))
       ELSE /\ at' = "connect"
            /\ local' = NewFetcher
            /\ status' = -1
            /\ UNCHANGED done
    /\ UNCHANGED << script, store, planned >>
    /\ UNCHANGED migratorVars

\* test_connection, lines 138-161, and run, lines 426-428: any answer but
\* 200, and any request exception, makes run return False.
RazorpayCustomerFetcher_test_connection(response) ==
    /\ script = fetch_razorpay_customers
    /\ at = "connect"
    /\ issued' = issued \cup { "get" }
    /\ IF response = "200"
       THEN /\ local' = [ local EXCEPT !.connect = "ok" ]
            /\ at' = "fetch"
       ELSE /\ local' = [ local EXCEPT !.connect = "failed", !.result = "false" ]
            /\ at' = "exit"
    /\ UNCHANGED << script, config, clients, store, status, began, done, planned >>
    /\ UNCHANGED migratorVars

\* The body of the while loop of lines 294-346 after a 200 response: the
\* batch is aggregated and the loop ends on an empty or a short batch.
ProcessedBatch(l, payments, batch_size) ==
    LET batch_count == Len(payments)
    IN  IF batch_count = 0
        THEN [ l EXCEPT !.depth = 0, !.batch_count = 0, !.has_more = FALSE ]
        ELSE [ l EXCEPT
                 !.depth = 0,
                 !.batch_count = batch_count,
                 !.customer_data = AggregateBatch(@, payments),
                 !.total_payments = @ + batch_count,
                 !.has_more = ~(batch_count < batch_size),
                 !.skip = IF batch_count < batch_size THEN @ ELSE @ + batch_count ]

\* One requests.get of fetch_payments_batch, lines 252-284, with what the
\* loop of fetch_all_payments_and_extract_customers, lines 294-350, does
\* with its outcome.  200 returns the page at skip; 429 calls
\* fetch_payments_batch(skip) again from inside the call, which no counter
\* limits: at the recursion limit of the interpreter RecursionError, which
\* is not a RequestException, leaves through run to the handler of main,
\* lines 487-489; any other status and any request exception count one
\* error and the loop asks for the same skip again, unless more than 5
\* errors have been counted.
RazorpayCustomerFetcher_fetch_payments_batch(response) ==
    /\ script = fetch_razorpay_customers
    /\ at = "fetch"
    /\ issued' = issued \cup { "get" }
    /\ IF response = "200"
       THEN /\ local' = ProcessedBatch(local,
                                       Page(store.payments, local.skip,
                                            config.batch_size),
                                       config.batch_size)
            /\ at' = IF local'.has_more THEN "fetch" ELSE "save"
       ELSE IF response = "429"
       THEN IF local.depth + 1 < RecursionLimit
            THEN /\ local' = [ local EXCEPT !.depth = @ + 1 ]
                 /\ at' = "fetch"
            ELSE /\ local' = [ local EXCEPT !.result = "raised" ]
                 /\ at' = "exit"
       ELSE IF local.total_errors + 1 > TooManyErrors
            THEN /\ local' = [ local EXCEPT !.depth = 0,
                                            !.total_errors = @ + 1,
                                            !.result = "false" ]
                 /\ at' = "exit"
            ELSE /\ local' = [ local EXCEPT !.depth = 0, !.total_errors = @ + 1 ]
                 /\ at' = "fetch"
    /\ UNCHANGED << script, config, clients, store, status, began, done, planned >>
    /\ UNCHANGED migratorVars

\* run, lines 434-444, with save_to_csv, lines 352-383: a live run with
\* customers writes the file, and returns False when that raises.
RazorpayCustomerFetcher_save_to_csv ==
    /\ script = fetch_razorpay_customers
    /\ at = "save"
    /\ at' = "exit"
    /\ IF config.dry_run \/ local.customer_data = NoCustomers
       THEN /\ local' = [ local EXCEPT !.result = "true" ]
            /\ UNCHANGED << store, issued >>
       ELSE /\ issued' = issued \cup { "open" }
            /\ \/ /\ store' = [ store EXCEPT !.csv = local.customer_data ]
                  /\ local' = [ local EXCEPT !.result = "true" ]
               \/ /\ store' = store
                  /\ local' = [ local EXCEPT !.result = "false", !.failed = TRUE ]
    /\ UNCHANGED << script, config, clients, status, began, done, planned >>
    /\ UNCHANGED migratorVars

\* main, lines 483-489: sys.exit(0 if success else 1), and status 1 after
\* an exception
RazorpayCustomerFetcher_exit == ScriptExit(fetch_razorpay_customers)

\* KeyboardInterrupt, main, lines 484-486
RazorpayCustomerFetcher_interrupt ==
    /\ script = fetch_razorpay_customers
    /\ at \in { "connect", "fetch", "save" }
    /\ ScriptEnded(1, Finished(config, "none", local.connect, TRUE, local.failed))
    /\ UNCHANGED << script, config, clients, store, issued, began, planned >>
    /\ UNCHANGED migratorVars

\* What the API can answer to one request.
FetchResponses == { "200", "429", "other", "exception" }

NextFetch ==
    \/ \E credentials \in BOOLEAN, dr \in BOOLEAN, bs \in FetchBatchSizes :
           RazorpayCustomerFetcher_main(credentials, dr, bs)
    \/ \E response \in FetchResponses \cup { "401" } :
           RazorpayCustomerFetcher_test_connection(response)
    \/ \E response \in FetchResponses :
           RazorpayCustomerFetcher_fetch_payments_batch(response)
    \/ RazorpayCustomerFetcher_save_to_csv
    \/ RazorpayCustomerFetcher_exit
    \/ RazorpayCustomerFetcher_interrupt

InitFetch == InitFetchOf(MaxPayments, 1)

SpecFetch == InitFetch /\ [][NextFetch]_vars

\* The process is scheduled until it ends and every request is answered;
\* the operator need not interrupt.
FairFetch ==
    /\ WF_vars(\E response \in FetchResponses \cup { "401" } :
                   RazorpayCustomerFetcher_test_connection(response))
    /\ WF_vars(\E response \in FetchResponses :
                   RazorpayCustomerFetcher_fetch_payments_batch(response))
    /\ WF_vars(RazorpayCustomerFetcher_save_to_csv)
    /\ WF_vars(RazorpayCustomerFetcher_exit)

SpecFetchFair == SpecFetch /\ FairFetch

-----------------------------------------------------------------------------
(* The scripts of the repository, each on its own store *)

InitScripts ==
    \/ InitStores(MaxScriptDocs + 1, MaxScriptDocs, 1)
    \/ InitDeliveryOf(MaxScriptDocs, 1)
    \/ InitPhoneOf(MaxScriptDocs, 1)
    \/ InitDateRangeOf(MaxScriptDocs, 1)
    \/ InitDuplicatorOf(MaxScriptDocs, 1)
    \/ InitRenameOf(MaxScriptDocs, 1)
    \/ InitNameOf(MaxScriptDocs, 1)
    \/ InitCustomers(1)

NextScripts ==
    \/ Next
    \/ NextDelivery
    \/ NextPhone
    \/ NextDateRange
    \/ NextDuplicator
    \/ NextRename
    \/ NextName
    \/ NextCustomers

SpecScripts == InitScripts /\ [][NextScripts]_vars

-----------------------------------------------------------------------------
(* Vocabulary of the claims about validation *)

\* The last process of the script was given these inputs.
Given == config # NoConfig

\* The operator answered the prompt of the last process with y or Y.
AnsweredYes == Given /\ config.answer = "y"

\* The date-range updater was given dates that parse to a start that is not
\* before the end; a date without a time is the start of its day as start
\* date and the end of its day as end date.
StartNotBeforeEnd ==
    /\ script = update_orders_by_date_range
    /\ Given
    /\ ~ParseRaises(config.start_date)
    /\ ~ParseRaises(config.end_date)
    /\ parse_date(config.start_date, FALSE) >= parse_date(config.end_date, TRUE)

\* The dates as they were given, a date without a time being that day at
\* 00:00:00, have the start at or after the end.
GivenStartNotBeforeEnd ==
    /\ script = update_orders_by_date_range
    /\ Given
    /\ ~ParseRaises(config.start_date)
    /\ ~ParseRaises(config.end_date)
    /\ Instant(config.start_date.day, config.start_date.part)
           >= Instant(config.end_date.day, config.end_date.part)

\* The duplicator was given the same URI and the same database name for
\* production and test.
SameDatabase ==
    /\ script = populate_test_with_prod
    /\ Given
    /\ config.prod_uri = config.test_uri
    /\ config.prod_db_name = config.test_db_name

\* The last process has ended without making a client, without a request to
\* the store, and with the store as it found it.
EndedUnconnected ==
    /\ at = "idle"
    /\ Len(done) >= 1
    /\ clients = NoClients
    /\ issued = {}
    /\ store = began

\* C18 as stated: the date-range updater given start >= end, and the
\* duplicator given the same URI and database name twice, exit with status 1
\* without a store connection and without modifying a document.
C18_Original ==
    (GivenStartNotBeforeEnd \/ SameDatabase) => EndedUnconnected /\ status = 1

\* C18: once the operator has answered y, the date-range updater whose start
\* is not before its end (a date-only end date being the end of that day),
\* and the duplicator given the same URI and database name twice, exit with
\* status 1 without a store connection and without modifying a document; a
\* process cancelled at the prompt ends, as unconnected, before validation.
C18_ValidationFatal ==
    /\ ((StartNotBeforeEnd \/ SameDatabase) /\ AnsweredYes)
           => EndedUnconnected /\ status = 1
    /\ ((GivenStartNotBeforeEnd \/ SameDatabase) /\ Given /\ ~AnsweredYes)
           => EndedUnconnected /\ status = 0

C18_Witness ==
    /\ StartNotBeforeEnd
    /\ AnsweredYes
    /\ ~config.dry_run
    /\ config.start_date = DateOnly(2)
    /\ config.end_date = DateTime(1, 1)
    /\ status = 1
    /\ \E i \in DOMAIN store.orders : MatchesCriteria(store.orders[i],
           [ config EXCEPT !.start_date = DateOnly(1), !.end_date = DateOnly(2) ])

C18_WitnessDuplicator ==
    /\ SameDatabase
    /\ AnsweredYes
    /\ ~config.dry_run
    /\ status = 1
    /\ "orders" \in DOMAIN store.prod

\* A run on one day given as a date: it is valid, and rewrites the orders
\* of that day.
C18_SameDay ==
    /\ GivenStartNotBeforeEnd
    /\ config.start_date = config.end_date
    /\ AnsweredYes
    /\ at = "exit"
    /\ store # began


-----------------------------------------------------------------------------
(* Vocabulary of the claims about every script *)

\* connect() of the migrator has returned False.
MigratorConnectFailed == \E i \in DOMAIN log : log[i] = Error("connect", "", 0)

\* connect() of the running script has returned False on a connection or
\* ping error.
ScriptConnectFailed == at # "idle" /\ local.connect = "failed"

\* The last process of the script ended after such a failure of connect().
EndedOnConnectFailure ==
    /\ at = "idle"
    /\ Len(done) >= 1
    /\ LastRun.connect = "failed"

\* C12: in every script, when connect() fails on a connection or ping error
\* the run returns False and the process exits with status 1; no read and no
\* write of application data is issued, the backup file is not written, and
\* no collection is changed.
C12_FailClosed ==
    /\ MigratorConnectFailed =>
           /\ pc = "exit"
           /\ result = "false"
           /\ Store(users, deps, backup) = pre
           /\ writes = NoWrites(deps)
           /\ migration_map = EmptyMap
           /\ \A e \in { "analysis", "integrity", "mapping", "backup" } :
                  CountEvents(e) = 0
    /\ (pc = "idle" /\ run >= 1 /\ history[Len(history)].result = "false")
           => exit_code = 1
    /\ ScriptConnectFailed =>
           /\ at = "exit"
           /\ local.result = "false"
           /\ issued = {}
           /\ store = began
    /\ EndedOnConnectFailure =>
           /\ status = 1
           /\ LastRun.result = "false"
           /\ issued = {}
           /\ store = began

\* A live run of the delivery-status script on an order it would rewrite has
\* failed to connect.
C12_Witness ==
    /\ script = update_delivery_status
    /\ EndedOnConnectFailure
    /\ LastRun.live
    /\ clients["client"] = "open"
    /\ \E i \in DOMAIN store.orders : HasOldStatus(store.orders[i])

C12_WitnessMigrator ==
    /\ MigratorConnectFailed
    /\ Live
    /\ \E i \in DOMAIN users : InconsistentExpr(users[i])

C12_WitnessDuplicator ==
    /\ script = populate_test_with_prod
    /\ EndedOnConnectFailure
    /\ LastRun.live
    /\ "orders" \in DOMAIN store.prod
    /\ "orders" \in DOMAIN store.test

\* The requests that change something: the writes to a store, the drop of a
\* collection, and the create request to the payment API.
MutatingRequests ==
    { "update_one", "update_many", "insert_one", "insert_many", "drop",
      "create_index", "post" }

\* C17: in every script no mutating request is issued unless the operator
\* answered the y/N prompt with y; with any other answer the process ends
\* without a connection and without a change.
C17_ConfirmationGate ==
    /\ (issued \cap MutatingRequests # {} \/ store # began) => AnsweredYes
    /\ (Given /\ ~AnsweredYes) => EndedUnconnected
    /\ (pc = "idle" /\ run >= 1 /\ history[Len(history)].result = "cancelled")
           => client = "none" /\ exit_code = 0

\* The same for the scripts that have a prompt: every script of the model
\* but create_test_customers.py.
C17_PromptedScripts ==
    script # create_test_customers => C17_ConfirmationGate

\* create_test_customers.py has created a customer; nobody was asked.
C17_Unprompted ==
    /\ script = create_test_customers
    /\ "post" \in issued
    /\ store.customers # << >>
    /\ config.answer = "none"


-----------------------------------------------------------------------------
(* The end-of-run summary of run_migration, lines 685-695 *)

\* The lines "=== Migration Summary ===" with the counts of the run.
Summarised ==
    Info("summary", "", Cardinality(DOMAIN migration_map)) \in Range(log)

\* run_migration went past the check-only return of line 660.
PastCheckOnly == Connected /\ ~check_only /\ MappingBuilt

\* C21: every migration run that connected and got past check-only has
\* printed the end-of-run summary with its counts when run_migration has
\* returned, the runs in which a Migrate step reported a failure included.
C21_EndOfRunSummary ==
    (pc = "exit" /\ PastCheckOnly) => Summarised

\* The same for the runs in which a Migrate step reported a failure only.
C21_SummaryAfterFailure ==
    (pc = "exit" /\ PastCheckOnly /\ raised) => Summarised

\* What the code has: the summary is printed by the runs that return True
\* with a mapping that is not empty, and by no other run.
C21_SummaryOnSuccess ==
    (pc = "exit" /\ PastCheckOnly) =>
        (Summarised <=> (result = "true" /\ migration_map # EmptyMap))

\* A run that printed the summary.
C21_SummaryPrinted ==
    pc = "exit" /\ PastCheckOnly /\ Summarised /\ Live /\ users # pre.users


-----------------------------------------------------------------------------
(* The references a live run leaves behind *)

\* _check_reference_integrity, lines 489-496: the reference of doc is
\* counted invalid when its string is the userId string of no users document.
InvalidReference(doc, us) ==
    HasUserId(doc) /\ Str(doc.userId) \notin valid_user_ids(us)

\* The strings by which a users document of us can be referred to: the
\* string of its userId, when it has one, and the string of its _id.
KnownStrings(us) ==
    { Str(u.userId) : u \in { w \in Range(us) : HasUserId(w) } }
        \cup { Str(u._id) : u \in Range(us) }

\* The current run is a live run that returned True without update failure.
LiveRunSucceeded == Completed /\ Live /\ ~raised

\* C22: after a live migration run with no update failure, a dependent
\* reference is invalid only if its value before the run was neither the
\* userId string nor the _id string of any users document.
C22_OnlyTrueOrphans ==
    LiveRunSucceeded =>
        \A c \in CollNames : \A i \in DOMAIN deps[c] :
            InvalidReference(deps[c][i], users) =>
                /\ HasUserId(pre.deps[c][i])
                /\ Str(pre.deps[c][i].userId) \notin KnownStrings(pre.users)

\* A true orphan is left beside a reference that the run made valid: it was
\* the _id of a user whose userId was another string.
C22_Witness ==
    /\ LiveRunSucceeded /\ migration_map # EmptyMap
    /\ \E c, d \in CollNames : \E i \in DOMAIN deps[c], j \in DOMAIN deps[d] :
          /\ InvalidReference(deps[c][i], users)
          /\ InvalidReference(pre.deps[d][j], pre.users)
          /\ ~InvalidReference(deps[d][j], users)
          /\ Str(pre.deps[d][j].userId) \notin DOMAIN migration_map


\* The reference of doc is valid: its string is the string of the userId of
\* some users document of us.
ValidReference(doc, us) ==
    HasUserId(doc) /\ Str(doc.userId) \in valid_user_ids(us)

\* C28: in a live run with no update failure, every dependent reference
\* that was valid before the run is valid after it.
C28_ValidStaysValid ==
    LiveRunSucceeded =>
        \A c \in CollNames : \A i \in DOMAIN deps[c] :
            ValidReference(pre.deps[c][i], pre.users)
                => ValidReference(deps[c][i], users)

\* A valid reference was rewritten, and its old value is the userId of no
\* user any more.
C28_Witness ==
    /\ LiveRunSucceeded
    /\ \E c \in CollNames : \E i \in DOMAIN deps[c] :
          /\ ValidReference(pre.deps[c][i], pre.users)
          /\ deps[c][i].userId # pre.deps[c][i].userId
          /\ ~ValidReference(pre.deps[c][i], users)


\* No two users share an old userId string, and no user's old userId is the
\* _id string of a user lacking a userId.
DistinctKeys(us) ==
    /\ \A i, j \in DOMAIN us :
           (HasUserId(us[i]) /\ HasUserId(us[j])
               /\ Str(us[i].userId) = Str(us[j].userId)) => i = j
    /\ \A i, j \in DOMAIN us :
           (HasUserId(us[i]) /\ WithoutUserId(us[j]))
               => Str(us[i].userId) # Str(us[j]._id)

\* doc referenced user by the user's old userId.
ReferencedBy(doc, user) ==
    HasUserId(doc) /\ HasUserId(user) /\ Str(doc.userId) = Str(user.userId)

\* Every dependent document that referenced a user by the user's old userId
\* references the string of that user's _id.
TargetsPreserved ==
    \A c \in CollNames : \A i \in DOMAIN deps[c] : \A u \in DOMAIN pre.users :
        ReferencedBy(pre.deps[c][i], pre.users[u])
            => deps[c][i].userId = IdAsString(pre.users[u])

C29_SharedKey ==
    /\ LiveRunSucceeded /\ ~DistinctKeys(pre.users)
    /\ ~TargetsPreserved


-----------------------------------------------------------------------------
(* What a live run of copy_phone_fields.py leaves in the users collection *)

\* A live run of the phone-copy script has returned True and no update_one
\* raised in it.
PhoneRunSucceeded ==
    /\ script = copy_phone_fields
    /\ at = "exit"
    /\ ~config.dry_run
    /\ local.connect = "ok"
    /\ local.result = "true"
    /\ ~local.failed

\* The query of the run selected the document for update.
Selected(doc) == PhoneQuery(doc, config.skip_existing)

\* C23: after a live phone-copy run in which every update succeeded, every
\* users document that has a source field with any value, null and false
\* included, and that was selected for update has the target field present
\* and equal to the source value.
C23_ExactCopy ==
    PhoneRunSucceeded =>
        \A i \in DOMAIN store.users : \A m \in field_mappings :
            (Selected(began.users[i]) /\ Exists(began.users[i], m[1]))
                => /\ Exists(store.users[i], m[2])
                   /\ store.users[i][m[2]] = began.users[i][m[1]]

\* What the code has: a source value other than null is copied as it is,
\* false included, to a target that is missing or null, and to every target
\* without skip-existing.
C23_NonNullCopied ==
    PhoneRunSucceeded =>
        \A i \in DOMAIN store.users : \A m \in field_mappings :
            ( /\ Selected(began.users[i])
              /\ ~IsNone(began.users[i], m[1])
              /\ IsNone(began.users[i], m[2]) \/ ~config.skip_existing )
                => store.users[i][m[2]] = began.users[i][m[1]]

\* The value false was copied.
C23_FalseCopied ==
    /\ PhoneRunSucceeded
    /\ \E i \in DOMAIN store.users :
          /\ began.users[i].phoneVerification = FalseV
          /\ began.users[i].phoneNumberVerification = Absent
          /\ store.users[i].phoneNumberVerification = FalseV

\* A null source, without skip-existing: the document was selected and the
\* target is still missing.
C23_NullNotCopied ==
    /\ PhoneRunSucceeded /\ ~config.skip_existing
    /\ \E i \in DOMAIN store.users :
          /\ began.users[i].phone = Null
          /\ store.users[i].phoneNumber = Absent


\* The phone-copy script has been started and its command line is on record.
PhoneGiven == script = copy_phone_fields /\ Given

\* The source fields of every document are what they were when the run
\* started.
SourcesKept ==
    \A i \in DOMAIN store.users : \A m \in field_mappings :
        store.users[i][m[1]] = began.users[i][m[1]]

\* C24: with skip-existing a target field that exists before the run, with
\* any value including null, has the same value after the run; in every mode
\* the source fields are never modified or removed.  Stated on every state
\* of a run.
C24_SkipExistingProtects ==
    PhoneGiven =>
        /\ config.skip_existing =>
              \A i \in DOMAIN store.users : \A m \in field_mappings :
                  Exists(began.users[i], m[2])
                      => store.users[i][m[2]] = began.users[i][m[2]]
        /\ SourcesKept

\* What the code has: the sources are kept in every mode, and with
\* skip-existing a target that holds a value other than null is kept.
C24_NonNullTargetsKept ==
    PhoneGiven =>
        /\ config.skip_existing =>
              \A i \in DOMAIN store.users : \A m \in field_mappings :
                  ~IsNone(began.users[i], m[2])
                      => store.users[i][m[2]] = began.users[i][m[2]]
        /\ SourcesKept

\* With skip-existing a live run left a target that held another value
\* than its source as it was, and copied the other field of the document.
C24_TargetKept ==
    /\ PhoneRunSucceeded /\ config.skip_existing
    /\ \E i \in DOMAIN store.users :
          /\ began.users[i].phone = StrV("p")
          /\ store.users[i].phoneNumber = StrV("q")
          /\ began.users[i].phoneNumberVerification = Absent
          /\ store.users[i].phoneNumberVerification = StrV("v")

\* With skip-existing a null target was overwritten.
C24_NullTargetOverwritten ==
    /\ PhoneRunSucceeded /\ config.skip_existing
    /\ \E i \in DOMAIN store.users :
          /\ began.users[i].phoneNumber = Null
          /\ store.users[i].phoneNumber = StrV("p")


-----------------------------------------------------------------------------
(* What a live run of rename_offers_id_field.py leaves in the orders *)

\* A live run of the rename script is over and no update_one raised in it.
RenameRunEnded ==
    /\ script = rename_offers_id_field
    /\ at = "exit"
    /\ ~config.dry_run
    /\ local.connect = "ok"
    /\ ~local.failed

\* The offer object had an id key and now has offerId with that value and no
\* id key, its other key as before; an offer without id is as it was.
RenamedOffer(before, after) ==
    IF HasId(before)
    THEN /\ after.dict
         /\ after.offerId = before.id
         /\ after.id = Absent
         /\ after.amount = before.amount
    ELSE after = before

\* The orders are the same documents in the same order, every offers array
\* has its elements in the same order, and every element is renamed.
RenamedOrders(before, after) ==
    /\ Len(after) = Len(before)
    /\ \A i \in DOMAIN before :
          /\ after[i]._id = before[i]._id
          /\ Len(after[i].offers) = Len(before[i].offers)
          /\ \A j \in DOMAIN before[i].offers :
                 RenamedOffer(before[i].offers[j], after[i].offers[j])

\* The run before the current one was a live run that returned without a
\* failed update.
AfterLiveRename ==
    /\ script = rename_offers_id_field
    /\ Len(done) >= 1
    /\ at # "idle"
    /\ done[Len(done)].live
    /\ done[Len(done)].connect = "ok"
    /\ done[Len(done)].result = "true"
    /\ ~done[Len(done)].failed

C25_NothingRenamed ==
    /\ RenameRunEnded /\ local.result = "true"
    /\ config.batch_size < 0
    /\ local.errors = 1
    /\ store = began
    /\ \E i \in DOMAIN store.orders : HasOfferWithId(store.orders[i])


-----------------------------------------------------------------------------
\* populate_test_with_prod: what a run leaves in the two databases

\* The documents of a collection; a collection that does not exist has none.
DocumentsOf(db, name) == IF name \in DOMAIN db THEN db[name] ELSE << >>

\* The requests that write: insert, drop, index creation.
WriteOperations == { "insert_one", "insert_many", "drop", "create_index" }

DuplicatorGiven == script = populate_test_with_prod /\ Given

DuplicationSucceeded ==
    /\ DuplicatorGiven
    /\ at = "exit"
    /\ ~config.dry_run
    /\ local.connect = "ok"
    /\ local.result = "true"

\* The collections of production that the run is to copy.
ToCopy ==
    { c \in DOMAIN store.prod : ~IsSystem(c) /\ c \notin config.excluded_collections }

ExcludedUntouched ==
    \A c \in config.excluded_collections :
        /\ (c \in DOMAIN store.test) = (c \in DOMAIN began.test)
        /\ DocumentsOf(store.test, c) = DocumentsOf(began.test, c)
        /\ (c \in store.test_indexes) = (c \in began.test_indexes)

C26_BatchSizeZero ==
    /\ DuplicationSucceeded
    /\ config.batch_size = 0
    /\ "sessions" \in ToCopy
    /\ Len(store.prod["sessions"]) = 3
    /\ "sessions" \in DOMAIN began.test

\* A negative batch size makes the cursor raise after the drop: the test
\* collection is gone and the run reports failure.
C26_NegativeBatchSizeFails ==
    (DuplicatorGiven /\ at = "exit" /\ ~config.dry_run /\ local.connect = "ok"
        /\ config.batch_size < 0
        /\ \E c \in ToCopy : store.prod[c] # << >>)
    => local.result = "false"

\* C27: a dry run of the duplication issues no write (insert, drop, index
\* creation) against either database at any point of the run, connect()
\* included.
C27_DryRunNoWrites ==
    (DuplicatorGiven /\ config.dry_run) =>
        /\ issued \cap WriteOperations = {}
        /\ store = began

\* Of a dry run the write test of connect() is the only writer: no
\* insert_many and no create_index is issued and the test database stays as
\* it was.
C27_DryRunWritesOnlyInConnect ==
    (DuplicatorGiven /\ config.dry_run) =>
        /\ issued \cap { "insert_many", "create_index" } = {}
        /\ store.test = began.test
        /\ store.test_indexes = began.test_indexes
        /\ ("insert_one" \in issued => at # "connect")

\* A dry run whose write test inserted into production.
C27_DryRunWriteTest ==
    /\ DuplicatorGiven
    /\ config.dry_run
    /\ "insert_one" \in issued
    /\ at = "exit"
    /\ local.result = "true"

\* A dry run that left the document of the write test in production.
C27_DryRunChangedProduction ==
    /\ DuplicatorGiven
    /\ config.dry_run
    /\ write_access_test \in DOMAIN store.prod
    /\ write_access_test \notin DOMAIN began.prod


-----------------------------------------------------------------------------
\* fetch_razorpay_customers: how the fetch of the payments ends

FetcherGiven == script = fetch_razorpay_customers /\ Given

\* fetch_all_payments_and_extract_customers is over, by return or by an
\* exception, in a process that is about to exit.
FetchOver == FetcherGiven /\ at = "exit" /\ local.connect = "ok"

\* Every payment of the account was counted once.
EveryPaymentOnce ==
    /\ local.total_payments = Len(store.payments)
    /\ local.customer_data = AggregateBatch(NoCustomers, store.payments)

\* The loop ended on a page of fewer than batch_size items and the fetch
\* returned True.
ReturnedSuccess ==
    /\ ~local.has_more
    /\ local.batch_count < config.batch_size
    /\ EveryPaymentOnce

\* The fetch returned False with more than 5 errors counted.
ReturnedFailure ==
    /\ local.has_more
    /\ local.result = "false"
    /\ local.total_errors > TooManyErrors

\* C30: the payment fetch always terminates: whatever the API answers (200,
\* 429, other errors, request exceptions), it either reaches a page of
\* fewer than batch_size items and returns success, every payment counted
\* once, or returns failure once more than 5 API errors have accumulated;
\* the retries after 429 are bounded.
C30_FetchTerminates ==
    FetchOver => ReturnedSuccess \/ ReturnedFailure

\* A fetch that RecursionError did not end has one of the two outcomes.
C30_ReturnsUnlessRateLimited ==
    (FetchOver /\ local.result # "raised") => ReturnedSuccess \/ ReturnedFailure

\* A page that failed is asked for again at the same skip, and nothing is
\* counted for it.
C30_FailedPageRetried ==
    [][(FetcherGiven /\ at = "fetch" /\ at' = "fetch"
          /\ local'.total_errors > local.total_errors)
       => /\ local'.skip = local.skip
          /\ local'.total_payments = local.total_payments
          /\ local'.customer_data = local.customer_data]_vars

\* The process ends once the fetch has begun, the recursion limit of the
\* interpreter included.
C30_ProcessEnds == (FetcherGiven /\ at = "fetch") ~> (at = "idle")

\* Answers of 429 alone ended the fetch by RecursionError: no error was
\* counted and no page was short.
C30_RateLimitedOut ==
    /\ FetchOver
    /\ local.result = "raised"
    /\ local.total_errors = 0
    /\ local.has_more

\* A fetch of three payments in batches of 2 that returned success after 5
\* errors.
C30_SuccessAfterErrors ==
    /\ FetchOver
    /\ ReturnedSuccess
    /\ local.total_errors = TooManyErrors
    /\ config.batch_size = 2
    /\ Len(store.payments) = 3

\* A fetch that returned failure on the sixth error, after a first page.
C30_Aborted ==
    /\ FetchOver
    /\ ReturnedFailure
    /\ local.skip > 0

====
